---- MODULE Spec2Model ----
(***************************************************************************)
(* Exchange execution and position management engine of CryptoCopyTradeBot *)
(* (src/exchange_execution.py, with the bot-side monitor of src/main.py).  *)
(*                                                                         *)
(* The engine is modelled as state machines over disjoint groups of        *)
(* variables, one specification each:                                      *)
(*   SpecConvert  ExchangeClient.convert_amount_to_contracts               *)
(*   SpecOrder    ExchangeClient.set_leverage / create_order               *)
(*   SpecCache    ExchangeClient.get_market_info / get_balance /           *)
(*                get_positions and their TTL caches                       *)
(*   SpecMonitor  ExchangeManager.monitor_positions with the dynamic       *)
(*                stop-loss and the take-profit ladder                     *)
(*   SpecManager  ExchangeManager.execute_signal / close_position /        *)
(*                modify_position and ExchangeClient.attach_tp_sl          *)
(*   SpecLoop     the while-loop of ExchangeManager.monitor_positions      *)
(*   SpecAwait    the awaits of that loop on the calls of each exchange    *)
(*   SpecTrade    execute_signal followed by the position monitor          *)
(*   SpecRate     ExchangeClient._rate_limit and the REST calls of one     *)
(*                client                                                   *)
(*   SpecClient   ExchangeClient.initialize / cleanup, ExchangeManager     *)
(*                cleanup and TradingBot.stop                              *)
(* A handler is one action; the answers of the exchange to the remote      *)
(* calls the handler makes are inputs of the action.                       *)
(*                                                                         *)
(* Numbers.  Python floats are modelled by exact arithmetic on small       *)
(* values: quantities are fixed-point integers in units of 1/QDen, the     *)
(* contract size and the notional are fractions <<num, den>>.              *)
(***************************************************************************)
EXTENDS Integers, Naturals, Sequences, FiniteSets, TLC

VARIABLES
    conv_in,      \* arguments and exchange answers of the last conversion
    conv_out,     \* its outcome, or NoResult while none was made
    ord_in,       \* arguments and exchange answers of the last client call
    ord_out,      \* its outcome
    ord_calls,    \* remote calls of the last client call, in order
    ord_subs,     \* order submissions of the last create_order, in order
    now,          \* time.time(), in seconds
    market_cache, \* ExchangeClient._market_cache with _market_cache_time
    balance_cache,\* ExchangeClient._balance_cache with _balance_cache_time
    position_cache,\* ExchangeClient._position_cache with _position_cache_time
    cache_op,     \* the last cached read: its argument, answer, result
    signal,       \* the TradingSignal registered in active_signals, or none
    position,     \* the position held at the exchange
    last_price,   \* the last price the market reports
    stops,        \* stop-loss values handed to modify_position, in order
    closes,       \* take-profit close orders submitted, in order
    iter,         \* monitor iterations made
    mgr_in,       \* the last call of the manager: its arguments
    mgr_out,      \* its outcome: returned value or raised
    mgr_reqs,     \* create_order calls and TP/SL requests it made, in order
    loop_pc,      \* where the loop of monitor_positions stands
    loop_ex,      \* index of the exchange the iteration is at
    loop_errors,  \* the last errors the loop logged
    loop_iter,    \* iterations started
    loop_positions, \* sizes of the positions the last fetch returned
    loop_checked, \* indices of those that got their two checks
    aw_pc,        \* where the monitor coroutine stands
    aw_ex,        \* index of the exchange it is at
    aw_hung,      \* exchanges whose remote call never returns
    aw_wait,      \* what is left of the sleep of the rate limiter
    aw_fetches,   \* per exchange: fetches evaluated so far
    cl_clients,   \* per exchange client: connection, session, counters
    cl_exchanges, \* ExchangeManager.exchanges: names of the registered clients
    cl_op,        \* the last lifecycle call and the remote calls it made
    cl_bot,       \* TradingBot: running or stopped
    rt_now,       \* time.time(), in units of half a min_request_interval
    rt_last,      \* ExchangeClient._last_request_time
    rt_calls      \* the REST calls the client has issued: name and time

convVars  == <<conv_in, conv_out>>
ordVars   == <<ord_in, ord_out, ord_calls, ord_subs>>
cacheVars == <<now, market_cache, balance_cache, position_cache, cache_op>>
monVars   == <<signal, position, last_price, stops, closes, iter>>
mgrVars   == <<mgr_in, mgr_out, mgr_reqs>>
loopVars  == <<loop_pc, loop_ex, loop_errors, loop_iter, loop_positions,
               loop_checked>>
awaitVars == <<aw_pc, aw_ex, aw_hung, aw_wait, aw_fetches>>
clientVars == <<cl_clients, cl_exchanges, cl_op, cl_bot>>
rateVars == <<rt_now, rt_last, rt_calls>>
laterVars == <<awaitVars, clientVars, rateVars>>
vars      == <<convVars, ordVars, cacheVars, monVars, mgrVars, loopVars, laterVars>>

NoResult == [kind |-> "none"]

(***************************************************************************)
(* Arithmetic helpers                                                      *)
(***************************************************************************)
Min(a, b) == IF a <= b THEN a ELSE b
Max(a, b) == IF a >= b THEN a ELSE b

\* math.floor(n / d) for n >= 0, d > 0
Floor(n, d) == n \div d

\* float(format(n / d, '.0f')): round to nearest, ties to even (n >= 0, d > 0)
RoundHalfEven(n, d) ==
    LET q == n \div d
        r == n % d
    IN  IF 2 * r < d THEN q
        ELSE IF 2 * r > d THEN q + 1
        ELSE IF q % 2 = 0 THEN q ELSE q + 1

RECURSIVE Pow10(_)
Pow10(p) == IF p = 0 THEN 1 ELSE 10 * Pow10(p - 1)

\* Largest amount precision of the modelled markets; quantities are integers
\* in units of 1/QDen.
MaxPrecision == 1
QDen == Pow10(MaxPrecision)

RECURSIVE SeqMax(_)
SeqMax(s) == IF Len(s) = 0 THEN 0 ELSE Max(Head(s), SeqMax(Tail(s)))

(***************************************************************************)
(* ExchangeClient.get_market_leverage_info and set_leverage                *)
(***************************************************************************)
\* An answer of fetchMarketLeverageTiers: the call raised (ok = FALSE) or
\* returned the list of the tiers' maxLeverage, possibly empty.
MaxTiers == 2
TierLeverages == {20, 50}
TierAnswers ==
    {[ok |-> FALSE, tiers |-> <<>>]} \cup
    {[ok |-> TRUE, tiers |-> t] :
        t \in UNION {[1..n -> TierLeverages] : n \in 0..MaxTiers}}

\* max_leverage: the first tier's maxLeverage; 1 when the fetch raised or
\* returned no tiers.
get_market_leverage_info(answer) ==
    IF ~answer.ok THEN 1
    ELSE IF Len(answer.tiers) = 0 THEN 1
    ELSE answer.tiers[1]

(***************************************************************************)
(* ExchangeClient.convert_amount_to_contracts                              *)
(***************************************************************************)
\* self._exchange.market(symbol) as read for info.ctVal and info.minSz:
\* the lookup raised, or gave ctVal (a fraction, <<0, 1>> when absent) and
\* minSz (fixed-point, 0 when absent).
FracHalf == <<1, 2>>
FracOne  == <<1, 1>>
FracZero == <<0, 1>>

\* float(info.get('ctVal') or 1.0), 1.0 when the lookup raised
ct_fallback(mkt) ==
    IF ~mkt.ok THEN FracOne
    ELSE IF mkt.ctVal[1] = 0 THEN FracOne
    ELSE mkt.ctVal

\* ct of the integer-contract branch
contract_ct(market_info, mkt) ==
    IF market_info.contract_size[1] <= 0 THEN ct_fallback(mkt)
    ELSE market_info.contract_size

\* The try block that adjusts the floored quantity to the minimum size: the
\* quantity after it. A raising lookup leaves the quantity as it was.
contract_min_adjust(formatted, market_info, mkt) ==
    IF market_info.min_amount = 0 /\ ~mkt.ok THEN formatted
    ELSE LET min_qty == IF market_info.min_amount # 0
                        THEN market_info.min_amount ELSE mkt.minSz
         IN  IF min_qty # 0 /\ formatted * QDen < min_qty
             THEN Max(1, Floor(min_qty, QDen))
             ELSE formatted

\* ExchangeClient._format_amount: float(format(n / d, '.<precision>f')), as
\* a fixed-point quantity.
_format_amount(precision, n, d) ==
    RoundHalfEven(n * Pow10(precision), d) * (QDen \div Pow10(precision))

\* The try block of the divisible branch: OrderException is raised inside
\* it and caught by its own "except Exception: pass"; TRUE when the
\* exception leaves the block.
divisible_min_check_raises(formatted, min_qty) ==
    LET raised_inside == min_qty # 0 /\ formatted < min_qty
        caught        == raised_inside
    IN  raised_inside /\ ~caught

ConvRaised == [kind |-> "raised", quantity |-> 0,
               leverage |-> 0, notional |-> FracZero]

\* convert_amount_to_contracts(symbol, usdt_amount, price, leverage) with
\* the market info get_market_info returned, the answer of the second
\* leverage-tier fetch and the raw market lookup.
convert_amount_to_contracts(market_info, usdt_amount, price, leverage, tiers, mkt) ==
    IF ~market_info.present THEN ConvRaised
    ELSE
    LET actual_leverage == Min(leverage, get_market_leverage_info(tiers))
    IN  IF market_info.amount_precision = 0
        THEN LET ct        == contract_ct(market_info, mkt)
                 floored   == Max(1, Floor(usdt_amount * actual_leverage * ct[2],
                                           price * ct[1]))
                 formatted == contract_min_adjust(floored, market_info, mkt)
             IN  [kind |-> "ok", quantity |-> formatted * QDen,
                  leverage |-> actual_leverage,
                  notional |-> <<formatted * price * ct[1], ct[2]>>]
        ELSE LET formatted == _format_amount(market_info.amount_precision,
                                             usdt_amount * actual_leverage, price)
             IN  IF divisible_min_check_raises(formatted, market_info.min_amount)
                 THEN ConvRaised
                 ELSE [kind |-> "ok", quantity |-> formatted,
                       leverage |-> actual_leverage,
                       notional |-> <<formatted * price, QDen>>]

\* set_leverage without the clamp to max_leverage: the requested leverage
\* is applied and returned.
set_leverage_unclamped(exchange_name, leverage, tiers, margin_ok, lever_ok) ==
    IF exchange_name = "OKX"
    THEN [raised |-> FALSE, value |-> leverage,
          calls |-> <<"fetchMarketLeverageTiers">>]
    ELSE [raised |-> ~(margin_ok /\ lever_ok),
          value |-> IF margin_ok /\ lever_ok THEN leverage ELSE 0,
          calls |-> <<"fetchMarketLeverageTiers", "setMarginMode", "setLeverage">>]

\* margin_ok / lever_ok: setMarginMode / setLeverage of the ccxt client
\* returned (TRUE) or raised (FALSE).
\* set_leverage(symbol, leverage, margin_mode): the value returned, or
\* raised; calls are the remote calls made, in order.
set_leverage(exchange_name, leverage, tiers, margin_ok, lever_ok) ==
    LET max_leverage    == get_market_leverage_info(tiers)
        actual_leverage == Min(leverage, max_leverage)
    IN  IF exchange_name = "OKX"
        THEN [raised |-> FALSE, value |-> actual_leverage,
              calls |-> <<"fetchMarketLeverageTiers">>]
        ELSE IF ~margin_ok
        THEN [raised |-> TRUE, value |-> 0,
              calls |-> <<"fetchMarketLeverageTiers", "setMarginMode">>]
        ELSE [raised |-> ~lever_ok, value |-> IF lever_ok THEN actual_leverage ELSE 0,
              calls |-> <<"fetchMarketLeverageTiers", "setMarginMode", "setLeverage">>]

(***************************************************************************)
(* ExchangeClient.create_order                                             *)
(***************************************************************************)
DEFAULT_LEVERAGE == 50

\* An OrderParams: price, stop_price and leverage are 0 when None; side is
\* "" when missing; extra_params is empty, as every caller passes it.
\* The order left as given: a LIMIT order without a price stays LIMIT.
keep_limit(order) == order

\* Lines 946-948: a LIMIT order without a price becomes a MARKET order.
downgrade_limit(order) ==
    IF order.order_type = "LIMIT" /\ order.price = 0
    THEN [order EXCEPT !.order_type = "MARKET"]
    ELSE order

\* OrderParams.validate
validate(order) ==
    IF ~(order.symbol_given /\ order.side # "" /\ order.order_type # ""
         /\ order.amount > 0)
    THEN FALSE
    ELSE IF order.order_type = "LIMIT" /\ order.price = 0 THEN FALSE
    ELSE IF order.order_type \in {"STOP", "TAKE_PROFIT"} /\ order.stop_price = 0
    THEN FALSE
    ELSE TRUE

\* use_price: the limit price of a LIMIT order, else the market's last price
use_price(order, market_info) ==
    IF order.order_type = "LIMIT" /\ order.price # 0
    THEN order.price ELSE market_info.last_price

\* leverage = order.leverage or 50
requested_leverage(order) ==
    IF order.leverage = 0 THEN DEFAULT_LEVERAGE ELSE order.leverage

\* ExchangeClient._format_price returns the price as given (the rounding
\* to the price precision is commented out in the source).
_format_price(price) == price

\* price_arg of a LIMIT order: the formatted price, on OKX clamped to the
\* price limits (limits.present = FALSE: _okx_get_price_limit gave None).
limit_price_arg(order, exchange_name, limits) ==
    LET p == _format_price(order.price)
    IN  IF exchange_name # "OKX" \/ ~limits.present THEN p
        ELSE IF order.side = "buy" /\ limits.max_buy # 0 /\ p > limits.max_buy
        THEN limits.max_buy
        ELSE IF order.side = "sell" /\ limits.min_sell # 0 /\ p < limits.min_sell
        THEN limits.min_sell
        ELSE p

\* Lines 1041-1046: posSide of the first attempt, by the account's
\* position mode ("" when the parameter is not sent).
okx_pos_side(pos_mode, side) ==
    IF pos_mode = "long_short"
    THEN (IF side = "buy" THEN "long" ELSE "short")
    ELSE ""

\* params_extras of the first attempt on OKX (lines 993-1010, 1041-1046)
okx_params(order, pos_mode, actual_leverage) ==
    [tdMode     |-> order.margin_mode,
     lever      |-> actual_leverage,
     posSide    |-> okx_pos_side(pos_mode, order.side),
     reduceOnly |-> order.reduce_only,
     slTriggerPx |-> _format_price(order.stop_price)]

\* The request body _okx_create_order posts: sz is str(int(amount_arg)).
_okx_create_order(order, quantity, price_arg, params) ==
    [tdMode     |-> params.tdMode,
     side       |-> order.side,
     ordType    |-> order.order_type,
     sz         |-> quantity \div QDen,
     px         |-> IF order.order_type = "LIMIT" THEN price_arg ELSE 0,
     posSide    |-> params.posSide,
     reduceOnly |-> params.reduceOnly,
     lever      |-> params.lever,
     slTriggerPx |-> params.slTriggerPx]

\* Answers of the exchange to one order submission
OrderAnswers == {"ok", "rej51010", "rejOther", "raise"}

\* The fallback taken on every rejection, whatever its code
is_any_rejection(answer) == answer # "ok"

\* Lines 1050-1054: the response is a rejection whose sCode is 51010
is_account_mode_rejection(answer) == answer = "rej51010"

\* Lines 1055-1057: the parameters of the second attempt
okx_fallback_params(params) ==
    [params EXCEPT !.posSide = "", !.tdMode = "cross"]

\* Line 1064: the parameters of the third attempt
okx_generic_params(pe) == [pe EXCEPT !.posSide = "net"]

(***************************************************************************)
(* ExchangeClient.get_market_info, get_balance, get_positions              *)
(***************************************************************************)
CACHE_DURATION == 5

\* A cached or returned value: a PositionInfo ("pos", with its size), a
\* list of PositionInfo ("list"), a MarketInfo ("market", size stands for
\* its last price) or an AccountBalance ("balance", size stands for its
\* total equity).
Entry(kind, size, items) == [kind |-> kind, size |-> size, items |-> items]
NoEntry == Entry("none", 0, <<>>)
NoSlot == [present |-> FALSE, time |-> 0, entry |-> NoEntry]
Slot(time, entry) == [present |-> TRUE, time |-> time, entry |-> entry]

\* "key in cache and now - cache_time[key] < CACHE_DURATION" with a TTL test
\* that is inverted
cache_fresh_inverted(slot, t) == slot.present /\ t - slot.time > CACHE_DURATION

\* "key in cache and now - cache_time[key] < CACHE_DURATION"
cache_fresh(slot, t) == slot.present /\ t - slot.time < CACHE_DURATION

\* contracts of a raw position: a number, or None
ContractsNone == 0 - 1

\* PositionInfo.from_exchange_position: absent for a position whose
\* contracts are 0 or None
from_exchange_position(raw) ==
    LET position_amt == IF raw.contracts = ContractsNone THEN 0 ELSE raw.contracts
    IN  IF position_amt = 0 THEN NoEntry
        ELSE Entry("pos", position_amt, <<>>)

\* The loop of get_positions without its zero-size filters: every fetched
\* raw position with a number of contracts is built, returned and cached.
RECURSIVE positions_loop_unfiltered(_, _, _, _)
positions_loop_unfiltered(raws, i, t, acc) ==
    IF i > Len(raws) THEN acc
    ELSE IF raws[i].contracts = ContractsNone THEN [acc EXCEPT !.raised = TRUE]
    ELSE LET info == Entry("pos", raws[i].contracts, <<>>)
         IN  positions_loop_unfiltered(raws, i + 1, t,
                [acc EXCEPT !.result = Append(@, info),
                            !.cache = [@ EXCEPT ![raws[i].symbol] = Slot(t, info)]])

\* The loop of get_positions over the fetched raw positions from index i:
\* float(None) raises and ends the call, leaving what was cached before it.
RECURSIVE positions_loop(_, _, _, _)
positions_loop(raws, i, t, acc) ==
    IF i > Len(raws) THEN acc
    ELSE IF raws[i].contracts = ContractsNone THEN [acc EXCEPT !.raised = TRUE]
    ELSE IF raws[i].contracts # 0
    THEN LET info == from_exchange_position(raws[i])
         IN  IF info.kind = "none" THEN positions_loop(raws, i + 1, t, acc)
             ELSE positions_loop(raws, i + 1, t,
                    [acc EXCEPT !.result = Append(@, info),
                                !.cache = [@ EXCEPT ![raws[i].symbol] = Slot(t, info)]])
    ELSE positions_loop(raws, i + 1, t, acc)

\* get_positions(symbol) ("" for None) at time t, given the answer of
\* fetchPositions: the list returned, the cache after the call, and whether
\* the remote call was made.
get_positions(cache, t, symbol, answer) ==
    LET cache_key == IF symbol = "" THEN "all" ELSE symbol
    IN  IF cache_fresh(cache[cache_key], t)
        THEN [ret |-> <<cache[cache_key].entry>>, cache |-> cache, remote |-> FALSE]
        ELSE IF ~answer.ok
        THEN [ret |-> <<>>, cache |-> cache, remote |-> TRUE]
        ELSE LET done == positions_loop(answer.raws, 1, t,
                            [result |-> <<>>, cache |-> cache, raised |-> FALSE])
             IN  IF done.raised
                 THEN [ret |-> <<>>, cache |-> done.cache, remote |-> TRUE]
                 ELSE [ret |-> done.result,
                       cache |-> IF symbol = ""
                                 THEN [done.cache EXCEPT
                                         !["all"] = Slot(t, Entry("list", 0, done.result))]
                                 ELSE done.cache,
                       remote |-> TRUE]

\* get_market_info dropping the cached entry of the symbol when the fetch fails
get_market_info_dropping(slot, t, answer) ==
    IF cache_fresh(slot, t)
    THEN [ret |-> <<slot.entry>>, slot |-> slot, remote |-> FALSE]
    ELSE IF ~answer.ok
    THEN [ret |-> <<>>, slot |-> NoSlot, remote |-> TRUE]
    ELSE [ret |-> <<Entry("market", answer.price, <<>>)>>,
          slot |-> Slot(t, Entry("market", answer.price, <<>>)), remote |-> TRUE]

\* get_market_info(symbol): answer.ok is FALSE when market/fetchTicker
\* raised or MarketInfo could not be built; answer.price is the last price.
get_market_info(slot, t, answer) ==
    IF cache_fresh(slot, t)
    THEN [ret |-> <<slot.entry>>, slot |-> slot, remote |-> FALSE]
    ELSE IF ~answer.ok
    THEN [ret |-> <<>>, slot |-> slot, remote |-> TRUE]
    ELSE [ret |-> <<Entry("market", answer.price, <<>>)>>,
          slot |-> Slot(t, Entry("market", answer.price, <<>>)), remote |-> TRUE]

\* get_balance(): a failed fetch returns an empty AccountBalance
get_balance(slot, t, answer) ==
    IF cache_fresh(slot, t)
    THEN [ret |-> <<slot.entry>>, slot |-> slot, remote |-> FALSE]
    ELSE IF ~answer.ok
    THEN [ret |-> <<Entry("balance", 0, <<>>)>>, slot |-> slot, remote |-> TRUE]
    ELSE [ret |-> <<Entry("balance", answer.price, <<>>)>>,
          slot |-> Slot(t, Entry("balance", answer.price, <<>>)), remote |-> TRUE]

(***************************************************************************)
(* ExchangeManager.monitor_positions and the checks it runs                *)
(***************************************************************************)
\* signal.stop_loss is None, a price is unavailable
NoStop == 0
NoPrice == 0

\* _check_take_profit_levels: "if tp_level.is_hit: continue", without the test
level_never_skipped(tp_level) == FALSE

\* _check_take_profit_levels: "if tp_level.is_hit: continue"
level_skipped(tp_level) == tp_level.is_hit

\* _check_take_profit_levels: the trigger test of one level
tp_is_hit(sig, current_price, tp_level) ==
    \/ sig.action = "OPEN_LONG" /\ current_price >= tp_level.price
    \/ sig.action = "OPEN_SHORT" /\ current_price <= tp_level.price

\* _check_take_profit_levels: the loop over the levels from index i.
\* accepted[i] tells whether create_order returns for the close of level i
\* (it raises otherwise, which ends the check).  The amount of a close is
\* position.size * percentage, kept in hundredths (percentage is a percent).
RECURSIVE check_levels(_, _, _, _, _, _, _)
check_levels(sig, pos, current_price, t, accepted, i, acc) ==
    IF i > Len(sig.take_profit_levels) THEN acc
    ELSE LET tp_level == sig.take_profit_levels[i]
         IN  IF level_skipped(tp_level) \/ ~tp_is_hit(sig, current_price, tp_level)
             THEN check_levels(sig, pos, current_price, t, accepted, i + 1, acc)
             ELSE LET close == [level |-> i, iter |-> t, price |-> current_price,
                                size |-> pos.size,
                                amount100 |-> pos.size * tp_level.percentage,
                                accepted |-> accepted[i]]
                  IN  IF accepted[i]
                      THEN check_levels(sig, pos, current_price, t, accepted, i + 1,
                             [levels |-> [acc.levels EXCEPT ![i].is_hit = TRUE,
                                                              ![i].hit_time = t],
                              closes |-> Append(acc.closes, close)])
                      ELSE [acc EXCEPT !.closes = Append(@, close)]

\* _check_take_profit_levels: nothing happens without a registered signal,
\* levels or a last price.
_check_take_profit_levels(sig, pos, current_price, t, accepted) ==
    IF ~sig.registered \/ Len(sig.take_profit_levels) = 0 \/ current_price = NoPrice
    THEN [levels |-> sig.take_profit_levels, closes |-> <<>>]
    ELSE check_levels(sig, pos, current_price, t, accepted, 1,
                      [levels |-> sig.take_profit_levels, closes |-> <<>>])

\* The reduce-only order modify_position builds for a trigger price
modify_order(order_type, trigger) ==
    [order_type |-> order_type, stop_price |-> trigger, reduce_only |-> TRUE]

\* ExchangeManager.modify_position: the value returned and the orders given
\* to create_order.  configured: the exchange has a client; positions_ok:
\* get_positions returned a position; sl_ok / tp_ok: create_order returned
\* for the stop-loss / take-profit order (it raises otherwise, which ends
\* the call in its "except", returning False).  Prices are 0 when None.
modify_position(configured, stop_loss, take_profit, positions_ok, sl_ok, tp_ok) ==
    IF ~configured \/ ~positions_ok THEN [success |-> FALSE, orders |-> <<>>]
    ELSE LET sl_order == modify_order("STOP_MARKET", stop_loss)
             tp_order == modify_order("TAKE_PROFIT_MARKET", take_profit)
         IN  IF stop_loss # NoStop /\ ~sl_ok
             THEN [success |-> FALSE, orders |-> <<sl_order>>]
             ELSE LET first == IF stop_loss # NoStop THEN <<sl_order>> ELSE <<>>
                  IN  IF take_profit = NoStop
                      THEN [success |-> TRUE, orders |-> first]
                      ELSE [success |-> tp_ok, orders |-> Append(first, tp_order)]

\* _check_dynamic_stop_loss: the stop computed from the price (half of the
\* profit distance beyond entry) and whether modify_position is called with
\* it.  Comparing with a stop_loss of None raises, which ends the check.
\* signal.stop_loss is read and never written.
_check_dynamic_stop_loss(sig, pos, current_price) ==
    LET entry_price == pos.entry_price
        no_call == [call |-> FALSE, new_sl |-> NoStop]
    IN  IF pos.size = 0 \/ ~sig.registered \/ ~sig.dynamic_sl \/ current_price = NoPrice
        THEN no_call
        ELSE IF sig.action = "OPEN_LONG"
        THEN IF current_price > entry_price
             THEN LET new_sl == entry_price + (current_price - entry_price) \div 2
                  IN  IF sig.stop_loss = NoStop THEN no_call
                      ELSE IF new_sl > sig.stop_loss
                           THEN [call |-> TRUE, new_sl |-> new_sl]
                           ELSE no_call
             ELSE no_call
        ELSE IF current_price < entry_price
             THEN LET new_sl == entry_price - (entry_price - current_price) \div 2
                  IN  IF sig.stop_loss = NoStop THEN no_call
                      ELSE IF new_sl < sig.stop_loss
                           THEN [call |-> TRUE, new_sl |-> new_sl]
                           ELSE no_call
             ELSE no_call

(***************************************************************************)
(* ExchangeClient.create_order and attach_tp_sl as the manager calls them  *)
(***************************************************************************)
\* The market the manager trades: integer contracts of size 1, minimum 1
ManagedMarket ==
    [info |-> [present |-> TRUE, amount_precision |-> 0,
               contract_size |-> FracOne, min_amount |-> QDen],
     raw |-> [ok |-> TRUE, ctVal |-> FracOne, minSz |-> QDen]]

\* An OrderResult, or the exception that left the call (raised): str(e) is
\* the error_message it would give.
OrderResult(raised, success, error_message, order_id, executed_amount) ==
    [raised |-> raised, success |-> success, error_message |-> error_message,
     order_id |-> order_id, executed_amount |-> executed_amount]
Raised(message) == OrderResult(TRUE, FALSE, message, 0, 0)
Failure(message) == OrderResult(FALSE, FALSE, message, 0, 0)

\* create_order(order) under the answers env of the exchange: last_price (0
\* when no market info or last price is to be had), the leverage tiers,
\* lever_ok (setLeverage returned), accept (the submission was accepted),
\* order_id (the id the exchange gave).  The outcome, the order as
\* submitted, and the contracts that reached the exchange (sz).
create_order_outcome(order0, exchange_name, env) ==
    LET order == downgrade_limit(order0)
        none(msg) == [result |-> Raised(msg), order |-> order,
                      submitted |-> FALSE, sz |-> 0]
    IN  IF ~validate(order) THEN none("Invalid order parameters")
        ELSE IF env.last_price = 0 THEN none("Cannot get market info")
        ELSE
        LET lev == set_leverage(exchange_name, requested_leverage(order),
                                env.tiers, TRUE, env.lever_ok)
        IN  IF lev.raised THEN none("exchange error")
            ELSE
            LET conv == convert_amount_to_contracts(
                            ManagedMarket.info, order.amount,
                            use_price(order, [last_price |-> env.last_price]),
                            lev.value, env.tiers, ManagedMarket.raw)
            IN  IF conv.kind = "raised" THEN none("Cannot get market info")
                ELSE [result |-> IF env.accept
                                 THEN OrderResult(FALSE, TRUE, "", env.order_id,
                                                  conv.quantity)
                                 ELSE Raised("order rejected"),
                      order |-> order, submitted |-> TRUE,
                      sz |-> conv.quantity \div QDen]

\* No TP/SL request
NoAlgo == [sent |-> FALSE, side |-> "", sz |-> 0, ordType |-> "",
           tpTriggerPx |-> 0, slTriggerPx |-> 0]

\* _okx_attach_tp_sl: the request posted to /trade/order-algo, none when
\* neither price is given (prices are 0 when None)
_okx_attach_tp_sl(side_close, amount_contracts, tp_price, sl_price) ==
    IF tp_price = 0 /\ sl_price = 0 THEN NoAlgo
    ELSE [sent |-> TRUE, side |-> side_close, sz |-> amount_contracts,
          ordType |-> IF tp_price # 0 /\ sl_price # 0 THEN "oco" ELSE "conditional",
          tpTriggerPx |-> tp_price, slTriggerPx |-> sl_price]

\* attach_tp_sl: the value returned (ret) and the request made.  answer is
\* "bad_symbol" when the market lookup raised, else the exchange's answer to
\* the request: "ok", "rejected" (code not 0) or "raise".
attach_tp_sl(exchange_name, side_open, executed_amount, take_profit, stop_loss, answer) ==
    IF exchange_name # "OKX" THEN [ret |-> FALSE, algo |-> NoAlgo]
    ELSE LET side_close == IF side_open = "buy" THEN "sell" ELSE "buy"
             amount_contracts == Max(1, Floor(executed_amount, QDen))
             algo == _okx_attach_tp_sl(side_close, amount_contracts,
                                       take_profit, stop_loss)
         IN  IF answer = "bad_symbol" THEN [ret |-> FALSE, algo |-> NoAlgo]
             ELSE [ret |-> IF algo.sent THEN answer = "ok" ELSE TRUE, algo |-> algo]

(***************************************************************************)
(* ExchangeManager.execute_signal, close_position, modify_position         *)
(***************************************************************************)
\* The exchanges the manager is configured with
ConfiguredExchanges == {"OKX", "BINANCE"}

NoOrder == [symbol_given |-> FALSE, side |-> "", order_type |-> "",
            amount |-> 0, price |-> 0, stop_price |-> 0, reduce_only |-> FALSE,
            leverage |-> 0, margin_mode |-> ""]

\* One call the manager made to its client, with what came of it
OrderReq(out) ==
    [kind |-> "create_order", order |-> out.order, submitted |-> out.submitted,
     sz |-> out.sz, result |-> out.result, algo |-> NoAlgo, ret |-> FALSE,
     take_profit |-> 0, stop_loss |-> 0]
AttachReq(att, take_profit, stop_loss) ==
    [kind |-> "attach_tp_sl", order |-> NoOrder, submitted |-> att.algo.sent,
     sz |-> att.algo.sz, result |-> Failure(""), algo |-> att.algo, ret |-> att.ret,
     take_profit |-> take_profit, stop_loss |-> stop_loss]

\* The handler "except Exception" that lets the exception through
reraise(message) == Raised(message)

\* "except Exception as e: return OrderResult(success=False,
\* error_message=str(e))" of execute_signal and close_position
on_exception(message) == Failure(message)

order_side(action) == IF action = "OPEN_LONG" THEN "buy" ELSE "sell"

\* The OrderParams execute_signal builds for one entry zone: zone.percentage
\* is held in percent.
zone_order(sig, zone) ==
    [symbol_given |-> TRUE, side |-> order_side(sig.action), order_type |-> "LIMIT",
     amount |-> (sig.position_size * zone.percentage) \div 100,
     price |-> zone.price, stop_price |-> 0, reduce_only |-> FALSE,
     leverage |-> sig.leverage, margin_mode |-> sig.margin_mode]

\* The single entry order always placed at the market
entry_order_at_market(sig) ==
    [symbol_given |-> TRUE, side |-> order_side(sig.action), order_type |-> "MARKET",
     amount |-> sig.position_size, price |-> 0, stop_price |-> 0,
     reduce_only |-> FALSE, leverage |-> sig.leverage,
     margin_mode |-> sig.margin_mode]

\* The OrderParams execute_signal builds without entry zones
entry_order(sig) ==
    [symbol_given |-> TRUE, side |-> order_side(sig.action),
     order_type |-> IF sig.entry_price = 0 THEN "MARKET" ELSE "LIMIT",
     amount |-> sig.position_size, price |-> sig.entry_price, stop_price |-> 0,
     reduce_only |-> FALSE, leverage |-> sig.leverage,
     margin_mode |-> sig.margin_mode]

\* Lines 1503-1557: the loop over the entry zones from index i.  An
\* exception of create_order leaves the loop (acc.error is its message).
RECURSIVE zones_loop(_, _, _, _, _)
zones_loop(sig, envs, answers, i, acc) ==
    IF i > Len(sig.entry_zones) THEN acc
    ELSE LET out == create_order_outcome(zone_order(sig, sig.entry_zones[i]),
                                         sig.exchange, envs[i])
         IN  IF out.result.raised
             THEN [acc EXCEPT !.reqs = Append(@, OrderReq(out)),
                              !.raised = TRUE,
                              !.error = out.result.error_message]
             ELSE IF out.result.success
             THEN LET att == attach_tp_sl(sig.exchange, order_side(sig.action),
                                          out.result.executed_amount, 0,
                                          sig.stop_loss, answers[i])
                  IN  zones_loop(sig, envs, answers, i + 1,
                        [acc EXCEPT
                           !.reqs = @ \o <<OrderReq(out),
                                       AttachReq(att, 0, sig.stop_loss)>>,
                           !.results = Append(@, out.result),
                           !.zones = [@ EXCEPT ![i].status = "PLACED",
                                               ![i].order_id = out.result.order_id]])
             ELSE zones_loop(sig, envs, answers, i + 1,
                    [acc EXCEPT !.reqs = Append(@, OrderReq(out)),
                                !.results = Append(@, out.result)])

\* execute_signal(signal): the OrderResult returned (or the exception
\* raised), the calls made to the client, and the entry zones afterwards.
execute_signal(sig, envs, answers) ==
    IF sig.exchange \notin ConfiguredExchanges
    THEN [result |-> Failure("Exchange not configured"), reqs |-> <<>>,
          zones |-> sig.entry_zones]
    ELSE IF Len(sig.entry_zones) > 0
    THEN LET done == zones_loop(sig, envs, answers, 1,
                        [reqs |-> <<>>, results |-> <<>>, zones |-> sig.entry_zones,
                         raised |-> FALSE, error |-> ""])
         IN  [result |-> IF done.raised THEN on_exception(done.error)
                         ELSE done.results[1],
              reqs |-> done.reqs, zones |-> done.zones]
    ELSE LET out == create_order_outcome(entry_order(sig), sig.exchange, envs[1])
         IN  IF out.result.raised
             THEN [result |-> on_exception(out.result.error_message),
                   reqs |-> <<OrderReq(out)>>, zones |-> sig.entry_zones]
             ELSE IF out.result.success
             THEN LET tp_price == IF Len(sig.tp_prices) > 0 THEN sig.tp_prices[1] ELSE 0
                      att == attach_tp_sl(sig.exchange, order_side(sig.action),
                                          out.result.executed_amount, tp_price,
                                          sig.stop_loss, answers[1])
                  IN  [result |-> out.result,
                       reqs |-> <<OrderReq(out),
                                  AttachReq(att, tp_price, sig.stop_loss)>>,
                       zones |-> sig.entry_zones]
             ELSE [result |-> out.result, reqs |-> <<OrderReq(out)>>,
                   zones |-> sig.entry_zones]

\* The OrderParams close_position builds for the position found
close_order(pos) ==
    [symbol_given |-> TRUE, side |-> IF pos.side = "long" THEN "sell" ELSE "buy",
     order_type |-> "MARKET", amount |-> pos.size, price |-> 0, stop_price |-> 0,
     reduce_only |-> TRUE, leverage |-> 0, margin_mode |-> "cross"]

\* close_position(exchange, symbol): positions is what get_positions
\* returned for the symbol.
close_position(exchange, positions, env) ==
    IF exchange \notin ConfiguredExchanges
    THEN [result |-> Failure("Exchange not configured"), reqs |-> <<>>]
    ELSE IF Len(positions) = 0
    THEN [result |-> Failure("No position found"), reqs |-> <<>>]
    ELSE LET out == create_order_outcome(close_order(positions[1]), exchange, env)
         IN  [result |-> IF out.result.raised
                         THEN on_exception(out.result.error_message)
                         ELSE out.result,
              reqs |-> <<OrderReq(out)>>]

(***************************************************************************)
(* Idle values of the variable groups a specification does not use         *)
(***************************************************************************)
ConvIdle ==
    /\ conv_in = NoResult
    /\ conv_out = NoResult

OrdIdle ==
    /\ ord_in = NoResult
    /\ ord_out = NoResult
    /\ ord_calls = <<>>
    /\ ord_subs = <<>>

Symbols == {"S1"}
PositionKeys == {"all"} \cup Symbols

NoCacheOp == [op |-> "none", key |-> "", had_entry |-> FALSE, failed |-> FALSE,
              age |-> 0,
              cached |-> NoEntry, remote |-> FALSE, fetched |-> <<>>,
              ret |-> <<>>]

CacheIdle ==
    /\ now = 0
    /\ market_cache = [s \in Symbols |-> NoSlot]
    /\ balance_cache = NoSlot
    /\ position_cache = [k \in PositionKeys |-> NoSlot]
    /\ cache_op = NoCacheOp

NoSignal == [registered |-> FALSE, action |-> "", dynamic_sl |-> FALSE,
             stop_loss |-> NoStop, take_profit_levels |-> <<>>]
NoPosition == [size |-> 0, entry_price |-> 0]

MonIdle ==
    /\ signal = NoSignal
    /\ position = NoPosition
    /\ last_price = NoPrice
    /\ stops = <<>>
    /\ closes = <<>>
    /\ iter = 0

MgrIdle ==
    /\ mgr_in = NoResult
    /\ mgr_out = NoResult
    /\ mgr_reqs = <<>>

LoopIdle ==
    /\ loop_pc = "stopped"
    /\ loop_ex = 0
    /\ loop_errors = <<>>
    /\ loop_iter = 0
    /\ loop_positions = <<>>
    /\ loop_checked = {}

AwaitIdle ==
    /\ aw_pc = "stopped"
    /\ aw_ex = 0
    /\ aw_hung = {}
    /\ aw_wait = 0
    /\ aw_fetches = <<>>

ClientIdle ==
    /\ cl_clients = <<>>
    /\ cl_exchanges = {}
    /\ cl_op = NoResult
    /\ cl_bot = "absent"

RateIdle ==
    /\ rt_now = 0
    /\ rt_last = 0
    /\ rt_calls = <<>>

LaterIdle == AwaitIdle /\ ClientIdle /\ RateIdle

(***************************************************************************)
(* SpecConvert: convert_amount_to_contracts on bounded inputs              *)
(***************************************************************************)
MaxUsdt == 3
MaxConvPrice == 3
MaxMinHalves == 5
ConvLeverages == {1, 20, 100}

\* Minimum sizes 0 (none), 0.5, 1, 1.5, ... in fixed point
MinAmounts == {k * (QDen \div 2) : k \in 0..MaxMinHalves}

AbsentMarket == [present |-> FALSE, amount_precision |-> 0,
                 contract_size |-> FracZero, min_amount |-> 0]

ConvMarkets ==
    {AbsentMarket} \cup
    [present : {TRUE}, amount_precision : 0..MaxPrecision,
     contract_size : {FracZero, FracOne, FracHalf}, min_amount : MinAmounts]

MktAnswers ==
    {[ok |-> FALSE, ctVal |-> FracZero, minSz |-> 0]} \cup
    [ok : {TRUE}, ctVal : {FracZero, FracHalf}, minSz : {0, 3 * (QDen \div 2)}]

ConvInputs ==
    [kind : {"convert"}, market_info : ConvMarkets, usdt_amount : 1..MaxUsdt,
     price : 1..MaxConvPrice, leverage : ConvLeverages,
     tiers : TierAnswers, mkt : MktAnswers]

ConvInit ==
    /\ conv_in \in ConvInputs
    /\ conv_out = NoResult
    /\ OrdIdle /\ CacheIdle /\ MonIdle /\ MgrIdle /\ LoopIdle /\ LaterIdle

ConvertCall ==
    /\ conv_out = NoResult
    /\ conv_out' = convert_amount_to_contracts(
                       conv_in.market_info, conv_in.usdt_amount, conv_in.price,
                       conv_in.leverage, conv_in.tiers, conv_in.mkt)
    /\ UNCHANGED <<conv_in, ordVars, cacheVars, monVars, mgrVars, loopVars, laterVars>>

ConvNext == ConvertCall

SpecConvert == ConvInit /\ [][ConvNext]_vars

\* The exchange minimum size of the market: MarketInfo.min_amount, or the
\* raw market's minSz when that is 0 (0: no minimum known).
ExchangeMin(in) ==
    IF in.market_info.min_amount # 0 THEN in.market_info.min_amount
    ELSE IF in.mkt.ok THEN in.mkt.minSz ELSE 0

ConvDone == conv_out.kind # "none" /\ conv_in.market_info.present

\* C6: on an integer-contract market (amount_precision = 0) the conversion
\* returns a quantity that is an integer, at least 1 and at least the
\* exchange minimum size, also for a non-integer minimum.
C6_IntegerContractQuantity ==
    (ConvDone /\ conv_in.market_info.amount_precision = 0) =>
        /\ conv_out.kind = "ok"
        /\ conv_out.quantity % QDen = 0
        /\ conv_out.quantity >= QDen
        /\ conv_out.quantity >= ExchangeMin(conv_in)

\* C7: on a divisible market (amount_precision > 0) a rounded quantity
\* below the exchange minimum ends the conversion in an error: no quantity
\* is returned.
C7_DivisibleBelowMinRaises ==
    (/\ ConvDone
     /\ conv_in.market_info.amount_precision > 0
     /\ conv_in.market_info.min_amount # 0
     /\ _format_amount(conv_in.market_info.amount_precision,
                       conv_in.usdt_amount *
                         Min(conv_in.leverage, get_market_leverage_info(conv_in.tiers)),
                       conv_in.price) < conv_in.market_info.min_amount)
    => conv_out.kind = "raised"

(***************************************************************************)
(* SpecOrder: set_leverage and create_order of one exchange client         *)
(***************************************************************************)
NoTiers == [ok |-> FALSE, tiers |-> <<>>]
ConvNone == [kind |-> "none", quantity |-> 0, leverage |-> 0, notional |-> FracZero]

OrdOut(kind, reason, actual, tiers1, conv, answers) ==
    [kind |-> kind, reason |-> reason, actual_leverage |-> actual,
     tiers |-> tiers1, conv |-> conv, answers |-> answers]

Finish(out, calls, subs) ==
    /\ ord_out' = out
    /\ ord_calls' = calls
    /\ ord_subs' = subs

\* Lines 1048-1076: the submissions of the signed-REST client. The first
\* attempt; on the account-mode rejection a second one without posSide and
\* in cross mode; when that is not accepted a third one with posSide net.
OkxSubmit(order, quantity, price_arg, params, out, calls) ==
    LET b1 == _okx_create_order(order, quantity, price_arg, params)
        pe == okx_fallback_params(params)
        b2 == _okx_create_order(order, quantity, price_arg, pe)
        b3 == _okx_create_order(order, quantity, price_arg, okx_generic_params(pe))
        Done(kind, reason, answers, subs) ==
            Finish([out EXCEPT !.kind = kind, !.reason = reason,
                               !.answers = answers], calls, subs)
    IN  \E a1 \in OrderAnswers :
          IF a1 = "ok" THEN Done("ok", "", <<a1>>, <<b1>>)
          ELSE IF a1 = "raise" THEN Done("raised", "network", <<a1>>, <<b1>>)
          ELSE IF ~is_account_mode_rejection(a1)
          THEN Done("raised", "rejected", <<a1>>, <<b1>>)
          ELSE \E a2 \in OrderAnswers :
                 IF a2 = "ok" THEN Done("ok", "", <<a1, a2>>, <<b1, b2>>)
                 ELSE IF a2 = "raise"
                 THEN Done("raised", "network", <<a1, a2>>, <<b1, b2>>)
                 ELSE \E a3 \in OrderAnswers :
                        IF a3 = "ok"
                        THEN Done("ok", "", <<a1, a2, a3>>, <<b1, b2, b3>>)
                        ELSE Done("raised",
                                  IF a3 = "raise" THEN "network" ELSE "rejected",
                                  <<a1, a2, a3>>, <<b1, b2, b3>>)

\* Line 1078: createOrder of the ccxt client, which raises on a rejection
CcxtSubmit(order, quantity, price_arg, out, calls) ==
    \E a \in {"ok", "raise"} :
        Finish([out EXCEPT !.kind = IF a = "ok" THEN "ok" ELSE "raised",
                           !.reason = IF a = "ok" THEN "" ELSE "rejected",
                           !.answers = <<a>>],
               calls,
               <<[tdMode |-> "", side |-> order.side, ordType |-> order.order_type,
                  sz |-> quantity \div QDen,
                  px |-> IF order.order_type = "LIMIT" THEN price_arg ELSE 0,
                  posSide |-> "", reduceOnly |-> order.reduce_only,
                  lever |-> 0, slTriggerPx |-> 0]>>)

\* How a get_market_info call of create_order is served
MarketReads == {"cached", "cached_no_price", "fetched", "fetched_no_price", "failed"}
ReadCalls(read) ==
    IF read \in {"cached", "cached_no_price"} THEN <<>> ELSE <<"fetchTicker">>

PriceLimitAnswers ==
    {[present |-> FALSE, max_buy |-> 0, min_sell |-> 0],
     [present |-> TRUE, max_buy |-> 2, min_sell |-> 4]}

\* create_order(order) of the client `client` on market `market`
create_order(order0, client, market) ==
    LET order == downgrade_limit(order0)
        none  == OrdOut("raised", "validation", 0, NoTiers, ConvNone, <<>>)
    IN
    IF ~validate(order) THEN Finish(none, <<>>, <<>>)
    ELSE \E read1 \in MarketReads :
      LET calls1 == ReadCalls(read1)
      IN
      IF read1 \in {"failed", "cached_no_price", "fetched_no_price"}
      THEN Finish([none EXCEPT !.reason = "market"], calls1, <<>>)
      ELSE \E tiers1 \in TierAnswers,
              margin_ok \in IF client.exchange_name = "OKX" THEN {TRUE} ELSE BOOLEAN,
              lever_ok \in IF client.exchange_name = "OKX" THEN {TRUE} ELSE BOOLEAN :
        LET lev    == set_leverage(client.exchange_name, requested_leverage(order),
                                   tiers1, margin_ok, lever_ok)
            calls2 == calls1 \o lev.calls
        IN
        IF lev.raised
        THEN Finish([none EXCEPT !.reason = "leverage", !.tiers = tiers1],
                    calls2, <<>>)
        ELSE \E read2 \in {"cached", "fetched", "failed"}, tiers2 \in TierAnswers :
          LET info   == IF read2 = "failed" THEN AbsentMarket ELSE market.info
              conv   == convert_amount_to_contracts(
                            info, order.amount, use_price(order, market),
                            lev.value, tiers2, market.raw)
              calls3 == calls2 \o ReadCalls(read2)
                               \o (IF read2 = "failed" THEN <<>>
                                   ELSE <<"fetchMarketLeverageTiers">>)
              out    == OrdOut("ok", "", lev.value, tiers1, conv, <<>>)
          IN
          IF conv.kind = "raised"
          THEN Finish([out EXCEPT !.kind = "raised", !.reason = "conversion"],
                      calls3, <<>>)
          ELSE \E limits \in IF order.order_type = "LIMIT" /\ client.exchange_name = "OKX"
                             THEN PriceLimitAnswers
                             ELSE {[present |-> FALSE, max_buy |-> 0, min_sell |-> 0]} :
            LET price_arg == limit_price_arg(order, client.exchange_name, limits)
                calls4    == calls3 \o
                             (IF order.order_type = "LIMIT" /\ client.exchange_name = "OKX"
                              THEN <<"price-limit">> ELSE <<>>)
            IN  IF client.exchange_name = "OKX"
                THEN OkxSubmit(order, conv.quantity, price_arg,
                               okx_params(order, client.pos_mode, lev.value),
                               out, calls4)
                ELSE CcxtSubmit(order, conv.quantity, price_arg, out, calls4)

Clients ==
    [exchange_name : {"OKX"}, pos_mode : {"", "net", "long_short"}] \cup
    {[exchange_name |-> "BINANCE", pos_mode |-> ""]}

\* The market of the orders of SpecOrder: an integer-contract market
OrderMarket ==
    [info |-> [present |-> TRUE, amount_precision |-> 0,
               contract_size |-> FracOne, min_amount |-> QDen],
     raw |-> [ok |-> TRUE, ctVal |-> FracOne, minSz |-> QDen],
     last_price |-> 2]

MaxOrderAmount == 1
SizingOrders ==
    [symbol_given : {TRUE}, side : {"buy", "sell"}, order_type : {"MARKET", "LIMIT"},
     amount : 1..MaxOrderAmount, price : {3}, stop_price : {0},
     reduce_only : {FALSE}, leverage : {0, 20, 100},
     margin_mode : {"cross", "isolated"}]

\* Orders that are malformed, carry a stop or take-profit type with or
\* without a trigger price, or are LIMIT orders without a price
EdgeOrder == [symbol_given |-> TRUE, side |-> "sell", order_type |-> "MARKET",
              amount |-> 1, price |-> 0, stop_price |-> 0, reduce_only |-> FALSE,
              leverage |-> 0, margin_mode |-> "cross"]
StopTypes == {"STOP", "STOP_MARKET", "TAKE_PROFIT", "TAKE_PROFIT_MARKET"}
EdgeOrders ==
    {[EdgeOrder EXCEPT !.symbol_given = FALSE], [EdgeOrder EXCEPT !.side = ""],
     [EdgeOrder EXCEPT !.order_type = ""], [EdgeOrder EXCEPT !.amount = 0]} \cup
    {[EdgeOrder EXCEPT !.order_type = t, !.stop_price = sp, !.reduce_only = TRUE] :
        t \in StopTypes, sp \in {0, 3}} \cup
    {[EdgeOrder EXCEPT !.order_type = "LIMIT", !.side = sd, !.leverage = l] :
        sd \in {"buy", "sell"}, l \in {0, 20}}
PlacedOrders == SizingOrders \cup EdgeOrders

SetLeverageRequests == {1, 20, 30, 50, 100}

OrdInit ==
    /\ OrdIdle
    /\ ConvIdle /\ CacheIdle /\ MonIdle /\ MgrIdle /\ LoopIdle /\ LaterIdle

\* A caller sets the leverage of a symbol.
SetLeverageCall ==
    \E client \in Clients, leverage \in SetLeverageRequests, tiers1 \in TierAnswers,
       margin_ok \in BOOLEAN, lever_ok \in BOOLEAN :
        LET lev == set_leverage(client.exchange_name, leverage, tiers1,
                                margin_ok, lever_ok)
        IN  /\ ord_in = NoResult
            /\ ord_in' = [kind |-> "set_leverage", client |-> client,
                          leverage |-> leverage]
            /\ Finish(OrdOut(IF lev.raised THEN "raised" ELSE "ok",
                             IF lev.raised THEN "leverage" ELSE "",
                             lev.value, tiers1, ConvNone, <<>>),
                      lev.calls, <<>>)
            /\ UNCHANGED <<convVars, cacheVars, monVars, mgrVars, loopVars, laterVars>>

\* A caller places an order.
CreateOrderCall ==
    \E client \in Clients, order \in PlacedOrders :
        /\ ord_in = NoResult
        /\ ord_in' = [kind |-> "create_order", client |-> client, order |-> order]
        /\ create_order(order, client, OrderMarket)
        /\ UNCHANGED <<convVars, cacheVars, monVars, mgrVars, loopVars, laterVars>>

\* The call has returned or raised; the client is ready for the next one.
OrdReturn ==
    /\ ord_in # NoResult
    /\ ord_in' = NoResult
    /\ Finish(NoResult, <<>>, <<>>)
    /\ UNCHANGED <<convVars, cacheVars, monVars, mgrVars, loopVars, laterVars>>

OrdNext == SetLeverageCall \/ CreateOrderCall \/ OrdReturn

SpecOrder == OrdInit /\ [][OrdNext]_vars

\* The maximum leverage the exchange reported in a tier answer; 1 when it
\* reported none.
ReportedMax(answer) ==
    IF answer.ok /\ Len(answer.tiers) > 0 THEN SeqMax(answer.tiers) ELSE 1

\* set_leverage has returned a value in the last call
LeverageReturned ==
    /\ ord_out.kind \in {"ok", "raised"}
    /\ ord_out.reason \notin {"validation", "market", "leverage"}

\* C8: the value set_leverage returns, called directly or by create_order,
\* is never greater than the maximum leverage the exchange reported for the
\* symbol in the tier answer it was given.
C8_LeverageWithinReportedMax ==
    LeverageReturned => ord_out.actual_leverage <= ReportedMax(ord_out.tiers)

C8_Witness ==
    /\ ord_in.kind = "set_leverage"
    /\ ord_in.leverage = 100
    /\ ord_out.kind = "ok"
    /\ ord_out.tiers.tiers = <<50, 20>>
    /\ ord_out.actual_leverage = 50

\* C9: in a successful create_order the leverage that sized the order (the
\* leverage of the conversion trace) and the leverage sent with the order
\* are the value set_leverage returned, the minimum of the requested
\* leverage and the exchange maximum.
C9_SizingUsesActualLeverage ==
    (ord_in.kind = "create_order" /\ ord_out.kind = "ok") =>
        /\ ord_out.conv.leverage = ord_out.actual_leverage
        /\ ord_in.client.exchange_name = "OKX" =>
               \A i \in 1..Len(ord_subs) : ord_subs[i].lever = ord_out.actual_leverage

IsRejection(answer) == answer \in {"rej51010", "rejOther"}

\* C10: one create_order on the signed-REST exchange makes at most three
\* submissions: the first attempt; a second one without posSide only after
\* the first was rejected with sCode 51010; a third one with posSide net
\* only after the second was rejected. It succeeds exactly at the first
\* accepted attempt, which is the last submission; it raises when the third
\* attempt is rejected, and after one submission on any other rejection.
C10_OkxFallbackChain ==
    (ord_in.kind = "create_order" /\ ord_in.client.exchange_name = "OKX") =>
        LET n == Len(ord_subs)
            a == ord_out.answers
        IN  /\ n <= 3
            /\ Len(a) = n
            /\ n >= 2 => /\ a[1] = "rej51010"
                         /\ ord_subs[2] = [ord_subs[1] EXCEPT !.posSide = "",
                                                              !.tdMode = "cross"]
            /\ n = 3 => /\ IsRejection(a[2])
                        /\ ord_subs[3] = [ord_subs[2] EXCEPT !.posSide = "net"]
            /\ \A i \in 1..n : (a[i] = "ok") => i = n
            /\ (ord_out.kind = "ok") <=> (n >= 1 /\ a[n] = "ok")
            /\ (n = 3 /\ IsRejection(a[3])) => ord_out.kind = "raised"
            /\ (n >= 1 /\ a[1] = "rejOther") => (n = 1 /\ ord_out.kind = "raised")

C10_Witness ==
    /\ ord_in.kind = "create_order"
    /\ ord_out.kind = "ok"
    /\ Len(ord_subs) = 3
    /\ ord_subs[1].posSide = "long"
    /\ ord_subs[1].tdMode = "isolated"
    /\ ord_out.answers = <<"rej51010", "rejOther", "ok">>

\* An order is invalid: symbol, side or type missing, amount not positive,
\* or a stop or take-profit type without a trigger price.
InvalidOrder(order) ==
    \/ ~order.symbol_given \/ order.side = "" \/ order.order_type = ""
    \/ order.amount <= 0
    \/ order.order_type \in StopTypes /\ order.stop_price = 0

\* C11: create_order rejects an invalid order before any remote call: no
\* market fetch, no leverage call, no submission.
C11_InvalidRejectedBeforeRemote ==
    (ord_in.kind = "create_order" /\ InvalidOrder(ord_in.order)) =>
        /\ ord_out.kind = "raised"
        /\ ord_out.reason = "validation"
        /\ ord_calls = <<>>
        /\ ord_subs = <<>>

\* C12: a LIMIT order without a price is not rejected by validation; every
\* submission of it is a MARKET order without a price, sized at the last
\* market price; and the call succeeds exactly when the exchange accepted a
\* submission.
C12_LimitWithoutPriceGoesToMarket ==
    (/\ ord_in.kind = "create_order"
     /\ ord_in.order.order_type = "LIMIT" /\ ord_in.order.price = 0) =>
        /\ ord_out.reason # "validation"
        /\ \A i \in DOMAIN ord_subs :
              ord_subs[i].ordType = "MARKET" /\ ord_subs[i].px = 0
        /\ ord_out.conv.kind = "ok" =>
              ord_out.conv.notional[1] * QDen =
                  ord_out.conv.quantity * OrderMarket.last_price * ord_out.conv.notional[2]
        /\ (ord_out.kind = "ok") <=>
              (ord_out.answers # <<>> /\ ord_out.answers[Len(ord_out.answers)] = "ok")

\* A LIMIT order without a price, placed with leverage 20, was accepted as
\* a MARKET order.
C12_Witness ==
    /\ ord_in.kind = "create_order"
    /\ ord_in.order.order_type = "LIMIT" /\ ord_in.order.price = 0
    /\ ord_in.order.leverage = 20
    /\ ord_out.kind = "ok"
    /\ ord_out.conv.leverage = 20
    /\ Len(ord_subs) = 1 /\ ord_subs[1].ordType = "MARKET"

(***************************************************************************)
(* SpecCache: the cached reads of one exchange client under a clock        *)
(***************************************************************************)
MaxTime == 6
MaxRawPositions == 2
ContractValues == {ContractsNone, 0, 1}
ValueReads == {1, 2}

RawPositions == [symbol : Symbols, contracts : ContractValues]
PositionAnswers ==
    {[ok |-> FALSE, raws |-> <<>>]} \cup
    {[ok |-> TRUE, raws |-> r] :
        r \in UNION {[1..n -> RawPositions] : n \in 0..MaxRawPositions}}
ValueAnswers ==
    {[ok |-> FALSE, price |-> 0]} \cup [ok : {TRUE}, price : ValueReads]

CacheInit ==
    /\ CacheIdle
    /\ ConvIdle /\ OrdIdle /\ MonIdle /\ MgrIdle /\ LoopIdle /\ LaterIdle

\* What a read found in its cache slot before it ran, the raw positions it
\* fetched (if it fetched any), and what it returned
Observed(op, key, slot, out, raws, ok) ==
    [op |-> op, key |-> key, had_entry |-> slot.present,
     failed |-> out.remote /\ ~ok,
     age |-> IF slot.present THEN now - slot.time ELSE 0,
     cached |-> slot.entry, remote |-> out.remote,
     fetched |-> IF out.remote THEN raws ELSE <<>>, ret |-> out.ret]

Tick ==
    /\ cache_op = NoCacheOp
    /\ now < MaxTime
    /\ now' = now + 1
    /\ UNCHANGED <<market_cache, balance_cache, position_cache, cache_op>>
    /\ UNCHANGED <<convVars, ordVars, monVars, mgrVars, loopVars, laterVars>>

GetMarketInfoCall ==
    /\ cache_op = NoCacheOp
    /\ \E symbol \in Symbols, answer \in ValueAnswers :
        LET out == get_market_info(market_cache[symbol], now, answer)
        IN  /\ market_cache' = [market_cache EXCEPT ![symbol] = out.slot]
            /\ cache_op' = Observed("get_market_info", symbol, market_cache[symbol], out, <<>>,
                                   answer.ok)
            /\ UNCHANGED <<now, balance_cache, position_cache>>
            /\ UNCHANGED <<convVars, ordVars, monVars, mgrVars, loopVars, laterVars>>

GetBalanceCall ==
    /\ cache_op = NoCacheOp
    /\ \E answer \in ValueAnswers :
        LET out == get_balance(balance_cache, now, answer)
        IN  /\ balance_cache' = out.slot
            /\ cache_op' = Observed("get_balance", "balance", balance_cache, out, <<>>,
                                   answer.ok)
            /\ UNCHANGED <<now, market_cache, position_cache>>
            /\ UNCHANGED <<convVars, ordVars, monVars, mgrVars, loopVars, laterVars>>

GetPositionsCall ==
    /\ cache_op = NoCacheOp
    /\ \E symbol \in {""} \cup Symbols, answer \in PositionAnswers :
        LET key == IF symbol = "" THEN "all" ELSE symbol
            out == get_positions(position_cache, now, symbol, answer)
        IN  /\ position_cache' = out.cache
            /\ cache_op' = Observed("get_positions", key, position_cache[key], out,
                                     answer.raws, answer.ok)
            /\ UNCHANGED <<now, market_cache, balance_cache>>
            /\ UNCHANGED <<convVars, ordVars, monVars, mgrVars, loopVars, laterVars>>

\* The caller takes the result; the client is ready for the next call.
CacheReturn ==
    /\ cache_op # NoCacheOp
    /\ cache_op' = NoCacheOp
    /\ UNCHANGED <<now, market_cache, balance_cache, position_cache>>
    /\ UNCHANGED <<convVars, ordVars, monVars, mgrVars, loopVars, laterVars>>

CacheNext ==
    Tick \/ GetMarketInfoCall \/ GetBalanceCall \/ GetPositionsCall \/ CacheReturn

SpecCache == CacheInit /\ [][CacheNext]_vars

(***************************************************************************)
(* SpecMonitor: the position monitor on one position of one exchange.      *)
(* active_signals is a public dictionary that no method of the manager     *)
(* fills: the signal of the position is either absent from it or was       *)
(* stored there by the embedding application.                              *)
(***************************************************************************)
MaxIter == 3
Prices == {4, 6, 8, 10, 12, 14, 16}
PositionSizes == {2, 4}
Percentages == {<<50, 25, 25>>, <<25, 25, 50>>}

Ladder(action) == IF action = "OPEN_LONG" THEN <<12, 14, 16>> ELSE <<8, 6, 4>>
InitialStop(action) == IF action = "OPEN_LONG" THEN 8 ELSE 12
OpenPositions == [size : PositionSizes, entry_price : {10}]

TakeProfitLevel(price, percentage) ==
    [price |-> price, percentage |-> percentage, is_hit |-> FALSE, hit_time |-> 0]

SignalsFor(a) ==
    {[registered |-> TRUE, action |-> a, dynamic_sl |-> d, stop_loss |-> sl,
      take_profit_levels |->
          [i \in 1..3 |-> TakeProfitLevel(Ladder(a)[i], pc[i])]] :
        d \in BOOLEAN, sl \in {NoStop, InitialStop(a)}, pc \in Percentages}

Signals == {NoSignal} \cup SignalsFor("OPEN_LONG") \cup SignalsFor("OPEN_SHORT")

MonInit ==
    /\ signal \in Signals
    /\ position \in OpenPositions
    /\ last_price = position.entry_price
    /\ stops = <<>>
    /\ closes = <<>>
    /\ iter = 0
    /\ ConvIdle /\ OrdIdle /\ CacheIdle /\ MgrIdle /\ LoopIdle /\ LaterIdle

\* The market moves: the last price the exchange reports changes, or
\* becomes unavailable.
PriceMove ==
    /\ iter < MaxIter
    /\ \E p \in Prices \cup {NoPrice} : p # last_price /\ last_price' = p
    /\ UNCHANGED <<signal, position, stops, closes, iter>>
    /\ UNCHANGED <<convVars, ordVars, cacheVars, mgrVars, loopVars, laterVars>>

\* One pass of the loop of monitor_positions over the position: the two
\* checks, then _update_position_stats, which the manager does not define
\* (the AttributeError is logged).  fetch_ok: fetch_positions answered;
\* positions_ok, sl_ok: get_positions and create_order within
\* modify_position; accepted: create_order for each level's close; fill:
\* the contracts by which the exchange reduces the position for the closes
\* it accepted.
MonitorIteration ==
    /\ iter < MaxIter
    /\ \E fetch_ok \in BOOLEAN :
        IF ~fetch_ok \/ position.size = 0
        THEN /\ iter' = iter + 1
             /\ UNCHANGED <<signal, position, last_price, stops, closes>>
        ELSE \E accepted \in [1..3 -> BOOLEAN] :
                LET t == iter + 1
                    sl == _check_dynamic_stop_loss(signal, position, last_price)
                    tp == _check_take_profit_levels(signal, position, last_price,
                                                    t, accepted)
                    filled == \E i \in DOMAIN tp.closes : tp.closes[i].accepted
                IN  /\ IF sl.call
                       THEN \E positions_ok \in BOOLEAN, sl_ok \in BOOLEAN :
                               stops' = Append(stops,
                                          [value |-> sl.new_sl, iter |-> t,
                                           applied |-> modify_position(TRUE, sl.new_sl,
                                                NoStop, positions_ok, sl_ok,
                                                TRUE).success])
                       ELSE stops' = stops
                    /\ signal' = [signal EXCEPT !.take_profit_levels = tp.levels]
                    /\ closes' = closes \o tp.closes
                    /\ IF filled
                       THEN \E fill \in 1..position.size :
                               position' = [position EXCEPT !.size = @ - fill]
                       ELSE position' = position
                    /\ iter' = t
                    /\ UNCHANGED last_price
    /\ UNCHANGED <<convVars, ordVars, cacheVars, mgrVars, loopVars, laterVars>>

MonNext == PriceMove \/ MonitorIteration

SpecMonitor == MonInit /\ [][MonNext]_vars

(***************************************************************************)
(* SpecManager: calls of execute_signal, close_position, modify_position   *)
(* and attach_tp_sl, one at a time                                         *)
(***************************************************************************)
MaxZones == 2

GoodEnv == [last_price |-> 2, tiers |-> [ok |-> TRUE, tiers |-> <<20>>],
            lever_ok |-> TRUE, accept |-> TRUE, order_id |-> 7]
OrderEnvs ==
    {GoodEnv, [GoodEnv EXCEPT !.last_price = 0], [GoodEnv EXCEPT !.lever_ok = FALSE],
     [GoodEnv EXCEPT !.accept = FALSE], [GoodEnv EXCEPT !.tiers = NoTiers]}
AttachAnswers == {"ok", "rejected", "raise", "bad_symbol"}

EntryZone(price) ==
    [price |-> price, percentage |-> 25, status |-> "PENDING", order_id |-> 0]
EntryZoneLists == {[i \in 1..n |-> EntryZone(i + 1)] : n \in 1..MaxZones}

\* Signals with entry zones, and signals with one entry (at the market or
\* at an entry price)
ZoneSignals ==
    [exchange : ConfiguredExchanges \cup {"BYBIT"},
     action : {"OPEN_LONG", "OPEN_SHORT"}, entry_zones : EntryZoneLists,
     position_size : {4}, entry_price : {0}, leverage : {20},
     margin_mode : {"cross"}, stop_loss : {NoStop, 1}, tp_prices : {<<>>}]
SingleSignals ==
    [exchange : ConfiguredExchanges \cup {"BYBIT"},
     action : {"OPEN_LONG", "OPEN_SHORT"}, entry_zones : {<<>>},
     position_size : {4, 8}, entry_price : {0, 3}, leverage : {20},
     margin_mode : {"cross"}, stop_loss : {NoStop, 1}, tp_prices : {<<>>, <<5, 6>>}]
ManagerSignals == ZoneSignals \cup SingleSignals

HeldPositions == {<<>>, <<[side |-> "long", size |-> 2]>>, <<[side |-> "short", size |-> 3]>>}

MgrInit ==
    /\ MgrIdle
    /\ ConvIdle /\ OrdIdle /\ CacheIdle /\ MonIdle /\ LoopIdle /\ LaterIdle

ExecuteSignalCall ==
    /\ mgr_in = NoResult
    /\ \E sig \in ManagerSignals :
        \E envs \in [1..Max(1, Len(sig.entry_zones)) -> OrderEnvs],
           answers \in [1..Max(1, Len(sig.entry_zones)) -> AttachAnswers] :
          LET done == execute_signal(sig, envs, answers)
          IN  /\ mgr_in' = [kind |-> "execute_signal", signal |-> sig,
                            envs |-> envs, answers |-> answers]
              /\ mgr_out' = [result |-> done.result, zones |-> done.zones]
              /\ mgr_reqs' = done.reqs
    /\ UNCHANGED <<convVars, ordVars, cacheVars, monVars, loopVars, laterVars>>

ClosePositionCall ==
    /\ mgr_in = NoResult
    /\ \E exchange \in ConfiguredExchanges \cup {"BYBIT"},
          positions \in HeldPositions, env \in OrderEnvs :
          LET done == close_position(exchange, positions, env)
          IN  /\ mgr_in' = [kind |-> "close_position", exchange |-> exchange,
                            positions |-> positions, env |-> env]
              /\ mgr_out' = [result |-> done.result]
              /\ mgr_reqs' = done.reqs
    /\ UNCHANGED <<convVars, ordVars, cacheVars, monVars, loopVars, laterVars>>

ModifyPositionCall ==
    /\ mgr_in = NoResult
    /\ \E exchange \in ConfiguredExchanges \cup {"BYBIT"}, stop_loss \in {NoStop, 1},
          take_profit \in {NoStop, 5}, positions_ok \in BOOLEAN, sl_ok \in BOOLEAN,
          tp_ok \in BOOLEAN :
          LET done == modify_position(exchange \in ConfiguredExchanges, stop_loss,
                                      take_profit, positions_ok, sl_ok, tp_ok)
          IN  /\ mgr_in' = [kind |-> "modify_position", exchange |-> exchange,
                            stop_loss |-> stop_loss, take_profit |-> take_profit,
                            positions_ok |-> positions_ok, sl_ok |-> sl_ok,
                            tp_ok |-> tp_ok]
              /\ mgr_out' = [success |-> done.success, orders |-> done.orders]
              /\ mgr_reqs' = <<>>
    /\ UNCHANGED <<convVars, ordVars, cacheVars, monVars, loopVars, laterVars>>

AttachTpSlCall ==
    /\ mgr_in = NoResult
    /\ \E exchange \in ConfiguredExchanges, side_open \in {"buy", "sell"},
          executed_amount \in {0, QDen \div 2, QDen, 3 * QDen},
          take_profit \in {NoStop, 5}, stop_loss \in {NoStop, 1},
          answer \in AttachAnswers :
          LET att == attach_tp_sl(exchange, side_open, executed_amount, take_profit,
                                  stop_loss, answer)
          IN  /\ mgr_in' = [kind |-> "attach_tp_sl", exchange |-> exchange,
                            side_open |-> side_open,
                            executed_amount |-> executed_amount,
                            take_profit |-> take_profit, stop_loss |-> stop_loss,
                            answer |-> answer]
              /\ mgr_out' = [ret |-> att.ret]
              /\ mgr_reqs' = <<AttachReq(att, take_profit, stop_loss)>>
    /\ UNCHANGED <<convVars, ordVars, cacheVars, monVars, loopVars, laterVars>>

\* The caller takes the result; the manager is ready for the next call.
MgrReturn ==
    /\ mgr_in # NoResult
    /\ mgr_in' = NoResult
    /\ mgr_out' = NoResult
    /\ mgr_reqs' = <<>>
    /\ UNCHANGED <<convVars, ordVars, cacheVars, monVars, loopVars, laterVars>>

MgrNext ==
    \/ ExecuteSignalCall \/ ClosePositionCall \/ ModifyPositionCall
    \/ AttachTpSlCall \/ MgrReturn

SpecManager == MgrInit /\ [][MgrNext]_vars

\* Every PositionInfo of an entry (a PositionInfo, or a list of them)
PositionsOf(entry) ==
    IF entry.kind = "pos" THEN {entry}
    ELSE IF entry.kind = "list" THEN {entry.items[i] : i \in DOMAIN entry.items}
    ELSE {}

\* C4: get_positions never returns a position whose size is zero, and no
\* position of size zero is ever stored in the position cache, whatever the
\* exchange reported.
C4_NoZeroSizePosition ==
    /\ \A k \in PositionKeys :
          \A p \in PositionsOf(position_cache[k].entry) : p.size # 0
    /\ cache_op.op = "get_positions" =>
          \A i \in DOMAIN cache_op.ret :
              \A p \in PositionsOf(cache_op.ret[i]) : p.size # 0

\* A fetch that reported a zero-size position next to an open one, which
\* get_positions returned and cached alone.
C4_Witness ==
    /\ cache_op.op = "get_positions"
    /\ cache_op.remote
    /\ \E i \in DOMAIN cache_op.fetched : cache_op.fetched[i].contracts = 0
    /\ Len(cache_op.ret) = 1
    /\ \E k \in Symbols : position_cache[k].present /\ position_cache[k].time = now

\* C5: a read (get_market_info, get_balance, get_positions) that finds an
\* entry for its key younger than CACHE_DURATION seconds makes no remote
\* call and returns that entry; a remote fetch is made only when the key
\* has no entry or its entry is at least CACHE_DURATION seconds old.
C5_CachedReadsWithinTtl ==
    cache_op.op # "none" =>
        /\ (cache_op.had_entry /\ cache_op.age < CACHE_DURATION) =>
               (~cache_op.remote /\ cache_op.ret = <<cache_op.cached>>)
        /\ cache_op.remote =>
               (~cache_op.had_entry \/ cache_op.age >= CACHE_DURATION)

\* A read served from an entry cached earlier and still within the TTL.
C5_Witness ==
    /\ cache_op.op # "none"
    /\ cache_op.had_entry
    /\ cache_op.age > 0 /\ cache_op.age < CACHE_DURATION
    /\ ~cache_op.remote
    /\ cache_op.ret = <<cache_op.cached>>

\* C1: with dynamic stop-loss enabled, the stops applied through
\* modify_position never loosen: for OPEN_LONG each applied stop is >= every
\* stop applied before it, for OPEN_SHORT <=, whatever path the price takes.
C1_AppliedStopsNeverLoosen ==
    \A i \in DOMAIN stops : \A j \in DOMAIN stops :
        (i < j /\ stops[i].applied /\ stops[j].applied) =>
            IF signal.action = "OPEN_LONG"
            THEN stops[j].value >= stops[i].value
            ELSE stops[j].value <= stops[i].value

\* C2: once a level's hit flag is set no later iteration submits a close for
\* that level: a close of a level is followed by another close of the same
\* level only if it was not accepted, and a level has its flag set exactly
\* when one accepted close of it was submitted.
C2_HitLevelNotRetriggered ==
    /\ \A i \in DOMAIN closes : \A j \in DOMAIN closes :
          (i < j /\ closes[i].level = closes[j].level) => ~closes[i].accepted
    /\ \A l \in DOMAIN signal.take_profit_levels :
          signal.take_profit_levels[l].is_hit <=>
              (\E i \in DOMAIN closes : closes[i].level = l /\ closes[i].accepted)

\* Level 1 was hit, and a later iteration, at a price that still meets the
\* trigger of level 1, submitted a close for another level only.
C2_Witness ==
    /\ signal.registered
    /\ signal.take_profit_levels[1].is_hit
    /\ \E i \in DOMAIN closes :
          /\ closes[i].iter > signal.take_profit_levels[1].hit_time
          /\ closes[i].level # 1
          /\ tp_is_hit(signal, closes[i].price, signal.take_profit_levels[1])

\* The closes submitted up to iteration t
ClosesUpTo(t) == SelectSeq(closes, LAMBDA c : c.iter <= t)

\* A long signal whose first close was for level 1, at a price below p2, and
\* whose next iteration saw a price from p2 to below p3; every close of the
\* two iterations was accepted.
CrossedP1ThenP2 ==
    /\ signal.registered /\ signal.action = "OPEN_LONG"
    /\ Len(closes) >= 2
    /\ closes[1].level = 1
    /\ closes[1].price < signal.take_profit_levels[2].price
    /\ \E j \in DOMAIN closes :
          /\ closes[j].iter = closes[1].iter + 1
          /\ closes[j].price >= signal.take_profit_levels[2].price
          /\ closes[j].price < signal.take_profit_levels[3].price
    /\ \A j \in DOMAIN closes :
          closes[j].iter <= closes[1].iter + 1 => closes[j].accepted

\* C3: long signal, levels p1 < p2 < p3, the price crosses p1 in one
\* iteration and p2 in the next: exactly two closes are submitted, one per
\* crossed level, each of its level's fraction of the original position
\* size (the size before any partial close).  Amounts are in hundredths.
C3_TwoClosesOfOriginalSize ==
    CrossedP1ThenP2 =>
        LET two == ClosesUpTo(closes[1].iter + 1)
            original == closes[1].size
        IN  /\ Len(two) = 2
            /\ two[1].level = 1 /\ two[2].level = 2
            /\ \A i \in 1..2 :
                  two[i].amount100 =
                      original * signal.take_profit_levels[two[i].level].percentage

\* The create_order calls / the attach_tp_sl calls of the last manager call
OrderReqs == SelectSeq(mgr_reqs, LAMBDA r : r.kind = "create_order")
AttachReqs == SelectSeq(mgr_reqs, LAMBDA r : r.kind = "attach_tp_sl")

\* execute_signal was called for a configured exchange
ExecutedOn(configured) ==
    /\ mgr_in.kind = "execute_signal"
    /\ (mgr_in.signal.exchange \in ConfiguredExchanges) = configured

C14_EveryZoneAttempted ==
    (ExecutedOn(TRUE) /\ Len(mgr_in.signal.entry_zones) > 0) =>
        LET zones == mgr_in.signal.entry_zones
        IN  /\ Len(OrderReqs) = Len(zones)
            /\ \A i \in DOMAIN zones :
                  /\ i <= Len(OrderReqs)
                  /\ OrderReqs[i].order = zone_order(mgr_in.signal, zones[i])
                  /\ IF OrderReqs[i].result.success
                     THEN /\ mgr_out.zones[i].status = "PLACED"
                          /\ mgr_out.zones[i].order_id = OrderReqs[i].result.order_id
                     ELSE mgr_out.zones[i] = zones[i]

\* The OrderResult a caller gets for a create_order outcome
AsReturned(result) == [result EXCEPT !.raised = FALSE]

\* C15: with entry zones execute_signal returns the result of the first
\* zone's order, whatever the outcomes of the later zones.
C15_ReturnsFirstZoneResult ==
    (ExecutedOn(TRUE) /\ Len(mgr_in.signal.entry_zones) > 0) =>
        /\ Len(OrderReqs) >= 1
        /\ mgr_out.result = AsReturned(OrderReqs[1].result)

\* C16: without entry zones exactly one entry order is given to the client,
\* MARKET when there is no entry price and LIMIT at the entry price
\* otherwise; attach_tp_sl is called only after that order succeeded, once,
\* with the first take-profit level's price and the signal's stop-loss; and
\* whatever the attachment does, the result returned is the entry order's.
C16_SingleEntryThenAttach ==
    (ExecutedOn(TRUE) /\ Len(mgr_in.signal.entry_zones) = 0) =>
        LET sig == mgr_in.signal
        IN  /\ Len(OrderReqs) = 1 /\ mgr_reqs[1].kind = "create_order"
            /\ OrderReqs[1].order.order_type =
                  (IF sig.entry_price = 0 THEN "MARKET" ELSE "LIMIT")
            /\ OrderReqs[1].order.price = sig.entry_price
            /\ Len(AttachReqs) = (IF OrderReqs[1].result.success THEN 1 ELSE 0)
            /\ \A i \in DOMAIN AttachReqs :
                  /\ AttachReqs[i].take_profit =
                        (IF Len(sig.tp_prices) > 0 THEN sig.tp_prices[1] ELSE 0)
                  /\ AttachReqs[i].stop_loss = sig.stop_loss
            /\ mgr_out.result = AsReturned(OrderReqs[1].result)

\* A LIMIT entry order succeeded, the attachment of its TP/SL failed, and
\* the successful result of the entry order was returned.
C16_Witness ==
    /\ ExecutedOn(TRUE)
    /\ Len(mgr_in.signal.entry_zones) = 0
    /\ mgr_in.signal.entry_price # 0
    /\ Len(mgr_reqs) = 2
    /\ mgr_reqs[1].order.order_type = "LIMIT"
    /\ mgr_reqs[2].kind = "attach_tp_sl"
    /\ mgr_reqs[2].submitted /\ ~mgr_reqs[2].ret
    /\ mgr_reqs[2].take_profit = 5 /\ mgr_reqs[2].stop_loss = 1
    /\ mgr_out.result.success

\* C17: attach_tp_sl with neither price returns success and sends no
\* request, on every exchange client; with at least one price it sends
\* exactly one request, on the side opposite to the opening side, for an
\* integer number of contracts of at least 1.
C17_AttachTpSl ==
    (mgr_in.kind = "attach_tp_sl" /\ mgr_in.answer # "bad_symbol") =>
        IF mgr_in.take_profit = NoStop /\ mgr_in.stop_loss = NoStop
        THEN mgr_out.ret /\ ~mgr_reqs[1].submitted
        ELSE /\ mgr_reqs[1].submitted
             /\ mgr_reqs[1].algo.side = (IF mgr_in.side_open = "buy" THEN "sell" ELSE "buy")
             /\ mgr_reqs[1].algo.sz >= 1

\* C18: close_position gives the client one reduce-only MARKET order on the
\* side opposite to the position, and the quantity that reaches the
\* exchange is the full size of the position; without a configured exchange
\* or a position it submits nothing and returns success = false.
C18_ClosesFullPosition ==
    mgr_in.kind = "close_position" =>
        IF mgr_in.exchange \notin ConfiguredExchanges \/ mgr_in.positions = <<>>
        THEN mgr_reqs = <<>> /\ ~mgr_out.result.success /\ ~mgr_out.result.raised
        ELSE LET pos == mgr_in.positions[1]
             IN  /\ Len(mgr_reqs) = 1
                 /\ mgr_reqs[1].order.order_type = "MARKET"
                 /\ mgr_reqs[1].order.reduce_only
                 /\ mgr_reqs[1].order.side = (IF pos.side = "long" THEN "sell" ELSE "buy")
                 /\ mgr_reqs[1].submitted => mgr_reqs[1].sz = pos.size

\* C19: modify_position with both prices issues the stop-loss order and the
\* take-profit order, the second whether or not the first succeeded; with
\* one price it issues that order only; it returns true exactly when every
\* order it attempted succeeded.
C19_ModifyIssuesBothIndependently ==
    (/\ mgr_in.kind = "modify_position"
     /\ mgr_in.exchange \in ConfiguredExchanges /\ mgr_in.positions_ok) =>
        LET want_sl == mgr_in.stop_loss # NoStop
            want_tp == mgr_in.take_profit # NoStop
            types == {mgr_out.orders[i].order_type : i \in DOMAIN mgr_out.orders}
        IN  /\ ("STOP_MARKET" \in types) <=> want_sl
            /\ ("TAKE_PROFIT_MARKET" \in types) <=> want_tp
            /\ \A i \in DOMAIN mgr_out.orders : mgr_out.orders[i].reduce_only
            /\ mgr_out.success <=>
                  ((want_sl => mgr_in.sl_ok) /\ (want_tp => mgr_in.tp_ok))

(***************************************************************************)
(* ExchangeManager.monitor_positions: the while True loop                  *)
(***************************************************************************)

MaxLoopIter == 3
MaxLogged == 2
MaxFetched == 2

\* self.exchanges in iteration order
LoopExchanges == <<"BINANCE", "OKX">>

\* What fetch_positions can return: position sizes (0 = flat)
FetchedPositions ==
    UNION {[1..n -> {0, 1}] : n \in 0..MaxFetched}

\* logging.error: the log keeps its last MaxLogged lines
log_error(log, line) ==
    LET all == Append(log, line)
    IN  IF Len(all) <= MaxLogged THEN all
        ELSE SubSeq(all, Len(all) - MaxLogged + 1, Len(all))

\* An exception that no except clause catches ends the coroutine
propagate(log, turn, ex) == [pc |-> "halted", log |-> log]

\* except Exception of the for-body: log, continue with the next exchange
inner_except(log, turn, ex) ==
    [pc  |-> IF ex < Len(LoopExchanges) THEN "exchange" ELSE "sleep",
     log |-> log_error(log, [iter |-> turn, scope |-> "exchange", ex |-> ex])]

\* except Exception of the while-body: log, fall through to the sleep
outer_except(log, turn, ex) ==
    [pc  |-> "sleep",
     log |-> log_error(log, [iter |-> turn, scope |-> "monitoring", ex |-> ex])]

\* The inner for over the fetched positions: flat positions are skipped,
\* the first open one runs the checks and then _update_position_stats,
\* which ExchangeManager does not define: AttributeError.
RECURSIVE positions_raise(_, _)
positions_raise(positions, i) ==
    IF i > Len(positions) THEN FALSE
    ELSE IF positions[i] = 0 THEN positions_raise(positions, i + 1)
    ELSE TRUE

\* The positions of a fetch that get _check_dynamic_stop_loss and
\* _check_take_profit_levels: those up to the first open one, after which
\* the AttributeError leaves the for loop over the positions.
RECURSIVE positions_checked(_, _)
positions_checked(positions, i) ==
    IF i > Len(positions) THEN {}
    ELSE IF positions[i] = 0 THEN positions_checked(positions, i + 1)
    ELSE {i}

LoopInit ==
    /\ ConvIdle /\ OrdIdle /\ CacheIdle /\ MonIdle /\ MgrIdle /\ LaterIdle
    /\ loop_pc = "top"
    /\ loop_ex = 0
    /\ loop_errors = <<>>
    /\ loop_iter = 0
    /\ loop_positions = <<>>
    /\ loop_checked = {}

\* while True / try / for ... in self.exchanges.items(): the iteration
\* starts at the first exchange, or the iterator raises.
BeginIteration ==
    /\ loop_pc = "top"
    /\ \E iterates \in BOOLEAN :
          /\ loop_pc' = IF iterates THEN "exchange" ELSE "outer_except"
          /\ loop_ex' = IF iterates THEN 1 ELSE 0
    /\ loop_positions' = <<>>
    /\ loop_checked' = {}
    /\ UNCHANGED <<loop_errors, loop_iter>>
    /\ UNCHANGED <<convVars, ordVars, cacheVars, monVars, mgrVars, laterVars>>

\* The body of the for: fetch_positions, then the loop over the positions.
ProcessExchange ==
    /\ loop_pc = "exchange"
    /\ \E positions \in FetchedPositions :
          /\ loop_positions' = positions
          /\ loop_checked' = positions_checked(positions, 1)
          /\ IF positions_raise(positions, 1)
             THEN loop_pc' = "inner_except" /\ loop_ex' = loop_ex
             ELSE IF loop_ex < Len(LoopExchanges)
                  THEN loop_pc' = "exchange" /\ loop_ex' = loop_ex + 1
                  ELSE loop_pc' = "sleep" /\ loop_ex' = loop_ex
    /\ UNCHANGED <<loop_errors, loop_iter>>
    /\ UNCHANGED <<convVars, ordVars, cacheVars, monVars, mgrVars, laterVars>>

\* The inner handler runs; its own logging may raise, which the outer try
\* catches.
InnerHandler ==
    /\ loop_pc = "inner_except"
    /\ \E logged \in BOOLEAN :
          IF logged
          THEN LET h == inner_except(loop_errors, loop_iter, loop_ex)
               IN  /\ loop_pc' = h.pc
                   /\ loop_errors' = h.log
                   /\ loop_ex' = IF h.pc = "exchange" THEN loop_ex + 1 ELSE loop_ex
          ELSE /\ loop_pc' = "outer_except"
               /\ UNCHANGED <<loop_errors, loop_ex>>
    /\ UNCHANGED <<loop_iter, loop_positions, loop_checked>>
    /\ UNCHANGED <<convVars, ordVars, cacheVars, monVars, mgrVars, laterVars>>

\* The outer handler runs
OuterHandler ==
    /\ loop_pc = "outer_except"
    /\ LET h == outer_except(loop_errors, loop_iter, loop_ex)
       IN  /\ loop_pc' = h.pc
           /\ loop_errors' = h.log
    /\ UNCHANGED <<loop_ex, loop_iter, loop_positions, loop_checked>>
    /\ UNCHANGED <<convVars, ordVars, cacheVars, monVars, mgrVars, laterVars>>

\* await asyncio.sleep(1), then the next turn of while True
Sleep ==
    /\ loop_pc = "sleep"
    /\ loop_pc' = "top"
    /\ loop_ex' = 0
    /\ loop_iter' = IF loop_iter < MaxLoopIter THEN loop_iter + 1 ELSE loop_iter
    /\ UNCHANGED <<loop_errors, loop_positions, loop_checked>>
    /\ UNCHANGED <<convVars, ordVars, cacheVars, monVars, mgrVars, laterVars>>

LoopNext ==
    \/ BeginIteration
    \/ ProcessExchange
    \/ InnerHandler
    \/ OuterHandler
    \/ Sleep

SpecLoop == LoopInit /\ [][LoopNext]_vars

\* The event loop keeps running the coroutine: a step that can be taken is
\* taken.
SpecLoopFair == SpecLoop /\ WF_vars(LoopNext)

\* The exception being handled is in the log
Logged(turn, ex) ==
    \E k \in DOMAIN loop_errors :
        loop_errors[k].iter = turn /\ loop_errors[k].ex = ex

\* C20: the monitor loop never halts on a failure: whenever an exception
\* is raised inside an iteration, the loop logs it and starts the next
\* iteration, and it keeps starting iterations forever.
C20_MonitorLoopNeverHalts ==
    /\ [](loop_pc # "halted")
    /\ []<>(loop_pc = "top")
    /\ \A i \in 0..(MaxLoopIter + 1) : \A e \in 0..Len(LoopExchanges) :
          (loop_pc \in {"inner_except", "outer_except"}
              /\ loop_iter = i /\ loop_ex = e)
          ~> (loop_pc = "top" /\ Logged(i, e))

\* A later iteration has started with the errors of an earlier one, from
\* the inner and from the outer handler, in the log.
C20_Witness ==
    /\ loop_pc = "top"
    /\ loop_iter >= 2
    /\ Len(loop_errors) = 2
    /\ loop_errors[1].scope = "exchange" /\ loop_errors[1].iter < loop_iter
    /\ loop_errors[2].scope = "monitoring" /\ loop_errors[2].iter < loop_iter

(***************************************************************************)
(* monitor_positions as one coroutine: its awaits on the exchange calls    *)
(***************************************************************************)

MaxWait == 2
MaxFetches == 2

OtherIdleForAwait ==
    /\ ConvIdle /\ OrdIdle /\ CacheIdle /\ MonIdle /\ MgrIdle /\ LoopIdle
    /\ ClientIdle /\ RateIdle

AwaitInit ==
    /\ OtherIdleForAwait
    /\ aw_pc = "top"
    /\ aw_ex = 0
    /\ aw_hung = {}
    /\ aw_wait = 0
    /\ aw_fetches = [i \in DOMAIN LoopExchanges |-> 0]

\* The step after the body of the for: the next exchange, or the sleep
after_exchange(ex) ==
    IF ex < Len(LoopExchanges) THEN [pc |-> "exchange", ex |-> ex + 1]
    ELSE [pc |-> "sleep", ex |-> ex]

\* for exchange_name, exchange in self.exchanges.items()
AwBegin ==
    /\ aw_pc = "top"
    /\ aw_pc' = "exchange"
    /\ aw_ex' = 1
    /\ UNCHANGED <<aw_hung, aw_wait, aw_fetches>>
    /\ UNCHANGED <<convVars, ordVars, cacheVars, monVars, mgrVars, loopVars, clientVars, rateVars>>

\* fetch_positions enters _rate_limit: time.sleep for what is left of
\* min_request_interval, in the thread of the event loop
RateLimit ==
    /\ aw_pc = "exchange"
    /\ \E left \in 0..MaxWait :
          /\ aw_wait' = left
          /\ aw_pc' = IF left > 0 THEN "rate_limit" ELSE "awaiting"
    /\ UNCHANGED <<aw_ex, aw_hung, aw_fetches>>
    /\ UNCHANGED <<convVars, ordVars, cacheVars, monVars, mgrVars, loopVars, clientVars, rateVars>>

\* The sleep of the rate limiter passes
RateLimitTick ==
    /\ aw_pc = "rate_limit"
    /\ aw_wait' = aw_wait - 1
    /\ aw_pc' = IF aw_wait = 1 THEN "awaiting" ELSE "rate_limit"
    /\ UNCHANGED <<aw_ex, aw_hung, aw_fetches>>
    /\ UNCHANGED <<convVars, ordVars, cacheVars, monVars, mgrVars, loopVars, clientVars, rateVars>>

\* await asyncio.to_thread(fetchPositions) returns (with positions, or
\* with [] after an error): possible only if the call returns at all
FetchReturns ==
    /\ aw_pc = "awaiting"
    /\ LoopExchanges[aw_ex] \notin aw_hung
    /\ aw_pc' = "evaluate"
    /\ UNCHANGED <<aw_ex, aw_hung, aw_wait, aw_fetches>>
    /\ UNCHANGED <<convVars, ordVars, cacheVars, monVars, mgrVars, loopVars, clientVars, rateVars>>

\* The positions of the exchange are evaluated; on to the next exchange
Evaluate ==
    /\ aw_pc = "evaluate"
    /\ aw_fetches' = [aw_fetches EXCEPT ![aw_ex] =
                          IF @ < MaxFetches THEN @ + 1 ELSE @]
    /\ aw_pc' = after_exchange(aw_ex).pc
    /\ aw_ex' = after_exchange(aw_ex).ex
    /\ UNCHANGED <<aw_hung, aw_wait>>
    /\ UNCHANGED <<convVars, ordVars, cacheVars, monVars, mgrVars, loopVars, clientVars, rateVars>>

\* await asyncio.sleep(1), then the next turn of while True
AwSleep ==
    /\ aw_pc = "sleep"
    /\ aw_pc' = "top"
    /\ aw_ex' = 0
    /\ UNCHANGED <<aw_hung, aw_wait, aw_fetches>>
    /\ UNCHANGED <<convVars, ordVars, cacheVars, monVars, mgrVars, loopVars, clientVars, rateVars>>

\* From now on the remote calls of one exchange never return
CallHangs ==
    /\ aw_pc # "stopped"
    /\ \E i \in DOMAIN LoopExchanges :
          /\ LoopExchanges[i] \notin aw_hung
          /\ aw_hung' = aw_hung \cup {LoopExchanges[i]}
    /\ UNCHANGED <<aw_pc, aw_ex, aw_wait, aw_fetches>>
    /\ UNCHANGED <<convVars, ordVars, cacheVars, monVars, mgrVars, loopVars, clientVars, rateVars>>

\* The steps of the coroutine
AwaitSteps ==
    \/ AwBegin
    \/ RateLimit
    \/ RateLimitTick
    \/ FetchReturns
    \/ Evaluate
    \/ AwSleep

AwaitNext ==
    \/ AwaitSteps
    \/ CallHangs

SpecAwait == AwaitInit /\ [][AwaitNext]_vars

\* The event loop runs the coroutine whenever it can take a step
SpecAwaitFair == SpecAwait /\ WF_vars(AwaitSteps)

\* C21: a call of one exchange that never returns does not stall the
\* monitoring of another: an exchange whose calls do return keeps having
\* its positions fetched and evaluated.
C21_StalledExchangeDoesNotStallOthers ==
    \A b \in DOMAIN LoopExchanges :
        [](LoopExchanges[b] \notin aw_hung =>
              <>(\/ aw_pc = "evaluate" /\ aw_ex = b
                 \/ LoopExchanges[b] \in aw_hung))

\* The leverage-tier fetch of set_leverage was made in the last call and failed
TierFetchFailed ==
    /\ ord_in.kind \in {"set_leverage", "create_order"}
    /\ \E i \in DOMAIN ord_calls : ord_calls[i] = "fetchMarketLeverageTiers"
    /\ ~ord_out.tiers.ok

\* The margin-mode call was made in the last call and failed
MarginModeFailed ==
    /\ ord_in.kind \in {"set_leverage", "create_order"}
    /\ \E i \in DOMAIN ord_calls : ord_calls[i] = "setMarginMode"
    /\ \A i \in DOMAIN ord_calls : ord_calls[i] # "setLeverage"

\* C22: set_leverage raises on every remote failure and substitutes no
\* default: when the leverage-tier fetch or the margin-mode call failed,
\* the call (set_leverage, or create_order through it) raises for the
\* leverage and no order is submitted.
C22_LeverageFailureRaises ==
    (TierFetchFailed \/ MarginModeFailed) =>
        /\ ord_out.kind = "raised"
        /\ ord_out.reason = "leverage"
        /\ ord_subs = <<>>

\* The step is a cached read whose remote call failed
FailedRead ==
    /\ cache_op = NoCacheOp
    /\ cache_op' # NoCacheOp
    /\ cache_op'.failed

\* C23: get_market_info, get_balance and get_positions do not raise when
\* their remote call fails: get_market_info returns absent, get_positions
\* an empty list, get_balance an empty balance; and the failed call leaves
\* every cache entry and cache timestamp as it was.
C23_FailedReadsDegrade ==
    [][FailedRead =>
          /\ cache_op'.ret = (IF cache_op'.op = "get_balance"
                              THEN <<Entry("balance", 0, <<>>)>> ELSE <<>>)
          /\ UNCHANGED <<market_cache, balance_cache, position_cache>>]_vars

\* A get_market_info whose fetch failed while a stale entry was cached:
\* absent was returned and the stale entry is still there.
C23_Witness ==
    /\ cache_op.op = "get_market_info"
    /\ cache_op.failed
    /\ cache_op.had_entry
    /\ cache_op.ret = <<>>
    /\ market_cache[cache_op.key] = Slot(now - cache_op.age, cache_op.cached)

(***************************************************************************)
(* ExchangeClient.initialize / cleanup, ExchangeManager.cleanup and        *)
(* TradingBot.stop                                                         *)
(***************************************************************************)

MaxInits == 2

\* ExchangeClient.__init__: no connection, no session
NewClient == [exchange |-> 0, session |-> 0, opened |-> 0, closed |-> 0,
              loads |-> 0, attempts |-> 0, inits |-> 0]

\* _setup_exchange: the remote calls it makes when nothing fails.  The
\* signed request for the account configuration needs the HTTP session.
setup_calls(name, client) ==
    IF name = "OKX"
    THEN <<"fetch_balance", "load_markets">> \o
         (IF client.session # 0 THEN <<"account/config">> ELSE <<>>)
    ELSE <<"load_markets", "fetch_balance">>

\* ExchangeClient.initialize(): _setup_exchange, _load_markets, then the
\* session if there is none.  answer: "ok", "setup_fails" (the connection
\* test raises) or "load_fails" (the load_markets of initialize raises).
initialize(name, client, answer) ==
    LET connected == [client EXCEPT !.attempts = @ + 1, !.exchange = @ + 1]
        first     == setup_calls(name, client)[1]
    IN  IF answer = "setup_fails"
        THEN [ok |-> FALSE, calls |-> <<first>>,
              client |-> [connected EXCEPT !.loads = IF first = "load_markets"
                                                     THEN @ + 1 ELSE @]]
        ELSE LET set_up == [connected EXCEPT !.loads = @ + 2]
                 calls  == setup_calls(name, client) \o <<"load_markets">>
             IN  IF answer = "load_fails"
                 THEN [ok |-> FALSE, calls |-> calls, client |-> set_up]
                 ELSE [ok |-> TRUE, calls |-> calls,
                       client |-> IF set_up.session # 0
                                  THEN [set_up EXCEPT !.inits = @ + 1]
                                  ELSE [set_up EXCEPT !.inits = @ + 1,
                                                      !.session = set_up.opened + 1,
                                                      !.opened = @ + 1]]

\* ExchangeClient.cleanup(): close the session and drop session and
\* connection; when close() raises the handler only logs.
client_cleanup(client, close_ok) ==
    IF client.session # 0 /\ ~close_ok THEN client
    ELSE [client EXCEPT !.closed = IF client.session # 0 THEN @ + 1 ELSE @,
                        !.session = 0, !.exchange = 0]

ClientInit ==
    /\ ConvIdle /\ OrdIdle /\ CacheIdle /\ MonIdle /\ MgrIdle /\ LoopIdle /\ AwaitIdle
    /\ RateIdle
    /\ cl_clients = [n \in {LoopExchanges[i] : i \in DOMAIN LoopExchanges} |-> NewClient]
    /\ cl_exchanges = {}
    /\ cl_op = NoResult
    /\ cl_bot = "running"

OtherIdleForClient ==
    UNCHANGED <<convVars, ordVars, cacheVars, monVars, mgrVars, loopVars, awaitVars, rateVars>>

\* client.initialize() is called; the manager registers the client when it
\* returns True
InitializeCall ==
    /\ cl_op = NoResult
    /\ cl_bot = "running"
    /\ \E name \in DOMAIN cl_clients, answer \in {"ok", "setup_fails", "load_fails"} :
          /\ cl_clients[name].attempts < MaxInits
          /\ LET out == initialize(name, cl_clients[name], answer)
             IN  /\ cl_clients' = [cl_clients EXCEPT ![name] = out.client]
                 /\ cl_exchanges' = IF out.ok THEN cl_exchanges \cup {name}
                                    ELSE cl_exchanges
                 /\ cl_op' = [kind |-> "initialize", name |-> name,
                              before |-> cl_clients[name],
                              ok |-> out.ok, calls |-> out.calls]
    /\ UNCHANGED cl_bot
    /\ OtherIdleForClient

\* ExchangeManager.cleanup(): every registered client is cleaned up, then
\* the maps are emptied
ManagerCleanupCall ==
    /\ cl_op = NoResult
    /\ cl_bot = "running"
    /\ cl_exchanges # {}
    /\ \E close_ok \in [cl_exchanges -> BOOLEAN] :
          cl_clients' = [n \in DOMAIN cl_clients |->
                            IF n \in cl_exchanges
                            THEN client_cleanup(cl_clients[n], close_ok[n])
                            ELSE cl_clients[n]]
    /\ cl_exchanges' = {}
    /\ cl_op' = [kind |-> "cleanup", name |-> "", before |-> NewClient, ok |-> TRUE,
                 calls |-> <<>>]
    /\ UNCHANGED cl_bot
    /\ OtherIdleForClient

\* TradingBot.stop(): notify the owner, stop the application, disconnect
\* the chat client, clean the database up.  The exchange manager is not
\* touched.
BotStop ==
    /\ cl_op = NoResult
    /\ cl_bot = "running"
    /\ cl_bot' = "stopped"
    /\ UNCHANGED <<cl_clients, cl_exchanges>>
    /\ cl_op' = [kind |-> "stop", name |-> "", before |-> NewClient, ok |-> TRUE,
                 calls |-> <<>>]
    /\ OtherIdleForClient

\* The call has returned
ClientReturn ==
    /\ cl_op # NoResult
    /\ cl_op' = NoResult
    /\ UNCHANGED <<cl_clients, cl_exchanges, cl_bot>>
    /\ OtherIdleForClient

ClientNext ==
    \/ InitializeCall
    \/ ManagerCleanupCall
    \/ BotStop
    \/ ClientReturn

SpecClient == ClientInit /\ [][ClientNext]_vars

\* C24: initialize is idempotent: on a client that was initialized
\* successfully before, a further call makes no remote call, keeps the
\* exchange connection, does not load the markets again and opens no
\* second HTTP session.
C24_InitializeIdempotent ==
    (cl_op.kind = "initialize" /\ cl_op.before.inits > 0) =>
        LET client == cl_clients[cl_op.name]
        IN  /\ cl_op.calls = <<>>
            /\ client.exchange = cl_op.before.exchange
            /\ client.loads = cl_op.before.loads
            /\ client.opened = cl_op.before.opened

\* C25: after the bot has stopped, every client that was initialized has
\* its HTTP session closed and its connection released, and the manager's
\* map of clients is empty.
C25_StopReleasesClients ==
    cl_bot = "stopped" =>
        /\ cl_exchanges = {}
        /\ \A n \in DOMAIN cl_clients :
              /\ cl_clients[n].session = 0
              /\ cl_clients[n].exchange = 0
              /\ cl_clients[n].closed = cl_clients[n].opened

(***************************************************************************)
(* execute_signal followed by the iterations of the position monitor       *)
(***************************************************************************)

\* active_signals after execute_signal has run for an instruction: neither
\* execute_signal nor anything else writes the map
active_after_execute(active, instruction) == active

TradeInit ==
    /\ signal = NoSignal
    /\ position = NoPosition
    /\ last_price = 10
    /\ stops = <<>>
    /\ closes = <<>>
    /\ iter = 0
    /\ MgrIdle
    /\ ConvIdle /\ OrdIdle /\ CacheIdle /\ LoopIdle /\ LaterIdle

\* execute_signal for an instruction with take-profit levels: the entry
\* order is accepted, which opens the position, or it fails
ExecuteAndOpen ==
    /\ mgr_in = NoResult
    /\ \E instruction \in Signals \ {NoSignal}, opened \in OpenPositions,
          success \in BOOLEAN :
          /\ mgr_in' = [kind |-> "execute_signal", signal |-> instruction]
          /\ mgr_out' = [result |-> IF success
                                    THEN OrderResult(FALSE, TRUE, "", 7, opened.size)
                                    ELSE Failure("order rejected")]
          /\ position' = IF success THEN opened ELSE position
          /\ signal' = active_after_execute(signal, instruction)
    /\ UNCHANGED <<last_price, stops, closes, iter, mgr_reqs>>
    /\ UNCHANGED <<convVars, ordVars, cacheVars, loopVars, laterVars>>

\* One pass of monitor_positions over the position, as MonitorIteration;
\* mgr_reqs records at which price the pass evaluated the position.
TradeIteration ==
    /\ mgr_in # NoResult
    /\ iter < MaxIter
    /\ \E fetch_ok \in BOOLEAN, accepted \in [1..3 -> BOOLEAN] :
        LET t == iter + 1
            evaluated == fetch_ok /\ position.size # 0
            sl == _check_dynamic_stop_loss(signal, position, last_price)
            tp == _check_take_profit_levels(signal, position, last_price, t, accepted)
        IN  /\ iter' = t
            /\ mgr_reqs' = Append(mgr_reqs, [iter |-> t, evaluated |-> evaluated,
                                             price |-> last_price])
            /\ IF ~evaluated
               THEN UNCHANGED <<signal, stops, closes>>
               ELSE /\ stops' = IF sl.call
                                THEN Append(stops, [value |-> sl.new_sl, iter |-> t,
                                                    applied |-> TRUE])
                                ELSE stops
                    /\ signal' = [signal EXCEPT !.take_profit_levels = tp.levels]
                    /\ closes' = closes \o tp.closes
    /\ UNCHANGED <<position, last_price, mgr_in, mgr_out>>
    /\ UNCHANGED <<convVars, ordVars, cacheVars, loopVars, laterVars>>

TradeNext ==
    \/ ExecuteAndOpen
    \/ PriceMove
    \/ TradeIteration

SpecTrade == TradeInit /\ [][TradeNext]_vars

\* C26: after execute_signal opened a position for an instruction with
\* take-profit levels, a later monitor iteration that evaluates the
\* position at a price reaching a level of the instruction that has not
\* fired submits a closing order.
C26_ExecutedSignalIsMonitored ==
    (mgr_in # NoResult /\ mgr_out.result.success) =>
        \A k \in DOMAIN mgr_reqs :
            (/\ mgr_reqs[k].evaluated
             /\ mgr_reqs[k].price # NoPrice
             /\ \E l \in DOMAIN mgr_in.signal.take_profit_levels :
                   /\ tp_is_hit(mgr_in.signal, mgr_reqs[k].price,
                                mgr_in.signal.take_profit_levels[l])
                   /\ \A c \in DOMAIN closes :
                         ~(closes[c].level = l /\ closes[c].accepted
                           /\ closes[c].iter < mgr_reqs[k].iter))
            => \E c \in DOMAIN closes : closes[c].iter = mgr_reqs[k].iter

(***************************************************************************)
(* ExchangeClient._rate_limit and the REST calls of one client             *)
(***************************************************************************)

\* min_request_interval, in the unit of rt_now
MinRequestInterval == 2
MaxRateTime == 6
MaxCalls == 3

\* Methods that call _rate_limit before their REST call
LimitedCalls == {"load_markets", "fetchPositions", "fetchBalance", "fetchTicker"}

\* REST calls made without _rate_limit: the leverage tiers, the margin mode
\* and leverage setters, createOrder, and the signed requests of _okx_request
UnlimitedCalls == {"fetchMarketLeverageTiers", "setMarginMode", "setLeverage",
                   "createOrder", "_okx_request"}

\* _rate_limit(): the time after its sleep
_rate_limit(t, last) ==
    IF t - last < MinRequestInterval THEN last + MinRequestInterval ELSE t

RateInit ==
    /\ ConvIdle /\ OrdIdle /\ CacheIdle /\ MonIdle /\ MgrIdle /\ LoopIdle
    /\ AwaitIdle /\ ClientIdle
    /\ rt_now = MinRequestInterval
    /\ rt_last = 0
    /\ rt_calls = <<>>

OtherIdleForRate ==
    UNCHANGED <<convVars, ordVars, cacheVars, monVars, mgrVars, loopVars, awaitVars, clientVars>>

\* Time passes between two calls
RateTick ==
    /\ rt_now < MaxRateTime
    /\ rt_now' = rt_now + 1
    /\ UNCHANGED <<rt_last, rt_calls>>
    /\ OtherIdleForRate

\* A method that applies the rate limiter, then makes its REST call
LimitedRestCall ==
    /\ Len(rt_calls) < MaxCalls
    /\ LET t == _rate_limit(rt_now, rt_last)
       IN  /\ t <= MaxRateTime
           /\ rt_now' = t
           /\ rt_last' = t
           /\ \E name \in LimitedCalls :
                 rt_calls' = Append(rt_calls, [name |-> name, time |-> t])
    /\ OtherIdleForRate

\* A REST call that is made without the rate limiter
UnlimitedRestCall ==
    /\ Len(rt_calls) < MaxCalls
    /\ \E name \in UnlimitedCalls :
          rt_calls' = Append(rt_calls, [name |-> name, time |-> rt_now])
    /\ UNCHANGED <<rt_now, rt_last>>
    /\ OtherIdleForRate

RateNext ==
    \/ RateTick
    \/ LimitedRestCall
    \/ UnlimitedRestCall

SpecRate == RateInit /\ [][RateNext]_vars

\* C27: any two consecutive REST calls of one client are at least
\* min_request_interval apart.
C27_CallsSpacedByInterval ==
    \A i \in DOMAIN rt_calls :
        i > 1 => rt_calls[i].time - rt_calls[i - 1].time >= MinRequestInterval

\* C28: a get_positions call served from the cache returns a flat list of
\* PositionInfo, the value the fetch that filled the entry returned: for
\* the all-positions key the cached list itself, for a symbol the one
\* cached position.
C28_CachedPositionsSameShape ==
    (cache_op.op = "get_positions" /\ ~cache_op.remote) =>
        /\ \A i \in DOMAIN cache_op.ret : cache_op.ret[i].kind = "pos"
        /\ cache_op.ret = (IF cache_op.key = "all" THEN cache_op.cached.items
                           ELSE <<cache_op.cached>>)

\* C29: in every monitor iteration every non-zero position the fetch of an
\* exchange returned gets its dynamic-stop-loss check and its take-profit
\* check, whatever happened at the positions before it.
C29_EveryOpenPositionChecked ==
    \A i \in DOMAIN loop_positions :
        loop_positions[i] # 0 => i \in loop_checked

\* C30: a level's hit flag is set only after a close order for it was
\* accepted, with its hit time set in the same step, and is never cleared;
\* a level whose close failed stays unfired; and a failed close prevents no
\* other level from being evaluated in the same iteration: every later
\* level that is unfired and whose trigger the price meets gets its close
\* submitted in that iteration too.
C30_HitFlagFollowsAcceptedClose ==
    LET levels == signal.take_profit_levels
    IN  /\ \A l \in DOMAIN levels :
              levels[l].is_hit <=>
                  \E c \in DOMAIN closes :
                      /\ closes[c].level = l /\ closes[c].accepted
                      /\ closes[c].iter = levels[l].hit_time
        /\ \A c \in DOMAIN closes :
              ~closes[c].accepted =>
                  \A l \in DOMAIN levels :
                      (/\ l > closes[c].level
                       /\ tp_is_hit(signal, closes[c].price, levels[l])
                       /\ ~(levels[l].is_hit /\ levels[l].hit_time < closes[c].iter))
                      => \E d \in DOMAIN closes :
                             closes[d].level = l /\ closes[d].iter = closes[c].iter

====
